---- MODULE Spec2Model ----
(***************************************************************************)
(* Model of the script editor of pjsekai_story_db: the line classifier     *)
(* (parseScriptLines), the classification history (commit / undo / redo)   *)
(* and the range tag annotator (addBodyTagToSelection).                    *)
(*                                                                         *)
(* A text is a sequence of characters; a character is a one-element string *)
(* token.  Japanese characters of the source are written by their reading  *)
(* ("KI" for the first character of the banner line), one token per        *)
(* character, because the module is plain ASCII.                           *)
(***************************************************************************)
EXTENDS Integers, Sequences, FiniteSets, TLC

VARIABLES
    \* ---- the pure classifier, applied to drawn inputs
    pRaw,          \* rawText handed to parseScriptLines
    pBlocked,      \* blockedTerms (array of strings)
    pRules,        \* lineRuleMap (Map line -> classification)
    pSpeakers,     \* speakerNames (array of strings)
    pRows,         \* parseScriptLines(pRaw, ...)
    pBody,         \* formatParsedRowsToBody(pRows)
    pRows2,        \* parseScriptLines(pBody, ...)
    pStage         \* "input" | "parsed" | "formatted" | "reparsed"

VARIABLES
    \* ---- the editor (React state of App)
    subItemBodyDraft,   \* the body text in the textarea
    parsedLines,        \* the displayed rows
    filterTerms,        \* cache of parser_filter_terms rows, by created_at
    lineRules,          \* cache of parser_line_classifications rows
    parserUndoStack,
    parserRedoStack,
    error,              \* the message shown ("" when none)
    timerArmed,         \* the 250 ms reparse timer is running
    \* ---- the backing store and the calls awaiting its reply
    storeTerms,         \* rows of parser_filter_terms
    storeRules,         \* rows of parser_line_classifications
    nextRowId,          \* the next generated id / created_at
    pending,            \* calls awaiting a reply, oldest first
    \* ---- the body tags of the open document
    bodyTagAnnotations, \* the annotation rows in memory, in insertion order
    bodyTagSelection,   \* the selected range, or NoSelection
    tagStore,           \* rows of body_tag_annotations
    nextTagRowId,       \* the next generated annotation id
    tagCalls,           \* annotation calls awaiting a reply, oldest first
    \* ---- history variables of the properties (not program state)
    last,               \* the handler run that just returned, and how
    trip,               \* progress of a commit / undo / redo round trip
    tagLast,            \* the annotation handler that just ran, and how
    \* ---- the selection of the document
    openBuffer          \* id of the sub-item / episode whose body is open

pvars == <<pRaw, pBlocked, pRules, pSpeakers, pRows, pBody, pRows2, pStage>>

evars == <<subItemBodyDraft, parsedLines, filterTerms, lineRules,
           parserUndoStack, parserRedoStack, error, timerArmed>>

svars == <<storeTerms, storeRules, nextRowId, pending>>

hvars == <<last, trip>>

tvars == <<bodyTagAnnotations, bodyTagSelection, tagStore, nextTagRowId,
           tagCalls, tagLast>>

dvars == <<openBuffer>>

vars == <<pvars, evars, svars, hvars, tvars, dvars>>

-----------------------------------------------------------------------------
(* Characters and literal lines                                            *)

LF  == "LF"      \* \n
CR  == "CR"      \* \r
SP  == " "
TAB == "TAB"     \* \t

null == "null"

\* String.prototype.trim removes white space and line terminators.
IsWhitespace(c) == c \in {SP, TAB, LF, CR, "IDSP"}

\* String.prototype.toLowerCase on the letters that occur in the model;
\* characters without case (kana, kanji, digits, punctuation) are unchanged.
toLowerChar(c) ==
    CASE c = "S" -> "s"
      [] c = "V" -> "v"
      [] c = "E" -> "e"
      [] c = "K" -> "k"
      [] c = "A" -> "a"
      [] c = "I" -> "i"
      [] c = "W" -> "w"
      [] c = "R" -> "r"
      [] OTHER   -> c

toLowerCase(s) == [i \in 1..Len(s) |-> toLowerChar(s[i])]

\* String.prototype.includes
includes(s, sub) ==
    \E i \in 1..(Len(s) - Len(sub) + 1) : SubSeq(s, i, i + Len(sub) - 1) = sub

\* String.prototype.trim
trim(s) ==
    LET keep == {i \in 1..Len(s) : ~IsWhitespace(s[i])}
    IN  IF keep = {} THEN <<>>
        ELSE SubSeq(s, CHOOSE i \in keep : \A j \in keep : i <= j,
                       CHOOSE i \in keep : \A j \in keep : j <= i)

\* rawText.replace(/\r\n?/g, '\n'): CR LF and a lone CR both become LF.
RECURSIVE normalizeNewlines(_)
normalizeNewlines(s) ==
    IF s = <<>> THEN <<>>
    ELSE IF Head(s) = CR
         THEN IF Len(s) >= 2 /\ s[2] = LF
              THEN <<LF>> \o normalizeNewlines(SubSeq(s, 3, Len(s)))
              ELSE <<LF>> \o normalizeNewlines(Tail(s))
         ELSE <<Head(s)>> \o normalizeNewlines(Tail(s))

\* String.prototype.split('\n'): always at least one (possibly empty) piece.
RECURSIVE splitOnLF(_)
splitOnLF(s) ==
    LET cuts == {i \in 1..Len(s) : s[i] = LF}
    IN  IF cuts = {} THEN <<s>>
        ELSE LET c == CHOOSE i \in cuts : \A j \in cuts : i <= j
             IN  <<SubSeq(s, 1, c - 1)>> \o splitOnLF(SubSeq(s, c + 1, Len(s)))

\* Array.prototype.join
RECURSIVE join(_, _)
join(parts, sep) ==
    IF parts = <<>> THEN <<>>
    ELSE IF Len(parts) = 1 THEN parts[1]
    ELSE parts[1] \o sep \o join(Tail(parts), sep)

\* The banner literals of splitAndFilterLines.
SekaiViewer  == <<"s","e","k","a","i",SP,"v","i","e","w","e","r">>
SekaiVieweri == <<"s","e","k","a","i",SP,"v","i","e","w","e","r","i">>
BannerLine   == <<"KI","NOU","ICHI","RAN">>

-----------------------------------------------------------------------------
(* The line classifier                                                     *)

getLineRule(lineRuleMap, line) ==
    IF line \in DOMAIN lineRuleMap THEN lineRuleMap[line] ELSE null

isNonDialogueClassification_Mutant(classification) ==
    classification = "direction"

isNonDialogueClassification(classification) ==
    classification = "direction" \/ classification = "location"

\* The banner filter looks at the non-empty lines with index 0 and 1.
BannerWindow == 2

inBannerWindow_Mutant(nonEmptyIndex) == nonEmptyIndex <= BannerWindow

inBannerWindow(nonEmptyIndex) == nonEmptyIndex < BannerWindow

isBannerLine_Mutant(line) ==
    includes(line, SekaiViewer) \/ includes(line, SekaiVieweri) \/ line = BannerLine

isBannerLine(line) ==
    LET lowerLine == toLowerCase(line)
    IN  includes(lowerLine, SekaiViewer) \/ includes(lowerLine, SekaiVieweri)
        \/ line = BannerLine

RECURSIVE filterLines_Mutant(_, _, _)
filterLines_Mutant(normalizedLines, blockedTerms, seen) ==
    IF normalizedLines = <<>> THEN <<>>
    ELSE LET line == Head(normalizedLines)
             rest == Tail(normalizedLines)
         IN  IF line = <<>> THEN filterLines_Mutant(rest, blockedTerms, seen)
             ELSE IF inBannerWindow(seen) /\ isBannerLine(line)
                  THEN filterLines_Mutant(rest, blockedTerms, seen + 1)
             ELSE IF \E term \in blockedTerms : includes(line, term)
                  THEN filterLines_Mutant(rest, blockedTerms, seen + 1)
             ELSE <<line>> \o filterLines_Mutant(rest, blockedTerms, seen + 1)

\* The filter callback of splitAndFilterLines, with nonEmptyIndex threaded
\* through: seen is the number of non-empty lines before this one.
RECURSIVE filterLines(_, _, _)
filterLines(normalizedLines, blockedTerms, seen) ==
    IF normalizedLines = <<>> THEN <<>>
    ELSE LET line == Head(normalizedLines)
             rest == Tail(normalizedLines)
         IN  IF line = <<>> THEN filterLines(rest, blockedTerms, seen)
             ELSE IF inBannerWindow(seen) /\ isBannerLine(line)
                  THEN filterLines(rest, blockedTerms, seen + 1)
             ELSE IF line \in blockedTerms
                  THEN filterLines(rest, blockedTerms, seen + 1)
             ELSE <<line>> \o filterLines(rest, blockedTerms, seen + 1)

splitAndFilterLines(rawText, blockedTerms) ==
    LET pieces == splitOnLF(normalizeNewlines(rawText))
        normalizedLines == [i \in 1..Len(pieces) |-> trim(pieces[i])]
    IN  filterLines(normalizedLines, blockedTerms, 0)

trimmedSet_Mutant(values) ==
    {values[i] : i \in 1..Len(values)} \ {<<>>}

\* new Set(values.map(trim).filter(Boolean))
trimmedSet(values) ==
    {trim(values[i]) : i \in 1..Len(values)} \ {<<>>}

ParsedLineRow(kind, speaker, content, sourceLine, sourceRule) ==
    [kind |-> kind, speaker |-> speaker, content |-> content,
     sourceLine |-> sourceLine, sourceRule |-> sourceRule]

RECURSIVE walkLines_Mutant(_, _, _, _)
walkLines_Mutant(lines, index, lineRuleMap, knownSpeakers) ==
    IF index > Len(lines) THEN <<>>
    ELSE
    LET line == lines[index]
        hasNext == index + 1 <= Len(lines)
        nextLine == IF hasNext THEN lines[index + 1] ELSE <<>>
        lineRule == getLineRule(lineRuleMap, line)
        nextRule == IF hasNext THEN getLineRule(lineRuleMap, nextLine) ELSE null
        lineIsKnownSpeaker == line \in knownSpeakers
        nextIsKnownSpeaker == hasNext /\ nextLine \in knownSpeakers
        lineIsForcedSpeaker == lineRule = "speaker"
        nextIsForcedSpeaker == nextRule = "speaker"
    IN  IF isNonDialogueClassification(lineRule)
        THEN <<ParsedLineRow(lineRule, <<>>, line, line, lineRule)>>
             \o walkLines_Mutant(lines, index + 1, lineRuleMap, knownSpeakers)
        ELSE IF (lineIsKnownSpeaker \/ lineIsForcedSpeaker)
                /\ ~isNonDialogueClassification(nextRule)
        THEN <<ParsedLineRow("dialogue", line, nextLine, line, lineRule)>>
             \o walkLines_Mutant(lines, index + 2, lineRuleMap, knownSpeakers)
        ELSE IF hasNext /\ (nextIsKnownSpeaker \/ nextIsForcedSpeaker)
        THEN <<ParsedLineRow("direction", <<>>, line, line, lineRule)>>
             \o walkLines_Mutant(lines, index + 1, lineRuleMap, knownSpeakers)
        ELSE IF hasNext /\ ~isNonDialogueClassification(nextRule)
        THEN <<ParsedLineRow("dialogue", line, nextLine, line, lineRule)>>
             \o walkLines_Mutant(lines, index + 2, lineRuleMap, knownSpeakers)
        ELSE <<ParsedLineRow("direction", <<>>, line, line, lineRule)>>
             \o walkLines_Mutant(lines, index + 1, lineRuleMap, knownSpeakers)

RECURSIVE walkLines_PairMutant(_, _, _, _)
walkLines_PairMutant(lines, index, lineRuleMap, knownSpeakers) ==
    IF index > Len(lines) THEN <<>>
    ELSE
    LET line == lines[index]
        hasNext == index + 1 <= Len(lines)
        nextLine == IF hasNext THEN lines[index + 1] ELSE <<>>
        lineRule == getLineRule(lineRuleMap, line)
        nextRule == IF hasNext THEN getLineRule(lineRuleMap, nextLine) ELSE null
        lineIsKnownSpeaker == line \in knownSpeakers
        nextIsKnownSpeaker == hasNext /\ nextLine \in knownSpeakers
        lineIsForcedSpeaker == lineRule = "speaker"
        nextIsForcedSpeaker == nextRule = "speaker"
    IN  IF isNonDialogueClassification(lineRule)
        THEN <<ParsedLineRow(lineRule, <<>>, line, line, lineRule)>>
             \o walkLines_PairMutant(lines, index + 1, lineRuleMap, knownSpeakers)
        ELSE IF (lineIsKnownSpeaker \/ lineIsForcedSpeaker) /\ hasNext
                /\ ~isNonDialogueClassification(nextRule)
        THEN <<ParsedLineRow("dialogue", line, nextLine, line, lineRule)>>
             \o walkLines_PairMutant(lines, index + 2, lineRuleMap, knownSpeakers)
        ELSE IF hasNext /\ (nextIsKnownSpeaker \/ nextIsForcedSpeaker)
        THEN <<ParsedLineRow("direction", <<>>, line, line, lineRule)>>
             \o walkLines_PairMutant(lines, index + 1, lineRuleMap, knownSpeakers)
        ELSE IF hasNext
        THEN <<ParsedLineRow("dialogue", line, nextLine, line, lineRule)>>
             \o walkLines_PairMutant(lines, index + 2, lineRuleMap, knownSpeakers)
        ELSE <<ParsedLineRow("direction", <<>>, line, line, lineRule)>>
             \o walkLines_PairMutant(lines, index + 1, lineRuleMap, knownSpeakers)

\* The loop body of parseScriptLines from position index (1-based).
RECURSIVE walkLines(_, _, _, _)
walkLines(lines, index, lineRuleMap, knownSpeakers) ==
    IF index > Len(lines) THEN <<>>
    ELSE
    LET line == lines[index]
        hasNext == index + 1 <= Len(lines)
        nextLine == IF hasNext THEN lines[index + 1] ELSE <<>>
        lineRule == getLineRule(lineRuleMap, line)
        nextRule == IF hasNext THEN getLineRule(lineRuleMap, nextLine) ELSE null
        lineIsKnownSpeaker == line \in knownSpeakers
        nextIsKnownSpeaker == hasNext /\ nextLine \in knownSpeakers
        lineIsForcedSpeaker == lineRule = "speaker"
        nextIsForcedSpeaker == nextRule = "speaker"
    IN  IF isNonDialogueClassification(lineRule)
        THEN <<ParsedLineRow(lineRule, <<>>, line, line, lineRule)>>
             \o walkLines(lines, index + 1, lineRuleMap, knownSpeakers)
        ELSE IF (lineIsKnownSpeaker \/ lineIsForcedSpeaker) /\ hasNext
                /\ ~isNonDialogueClassification(nextRule)
        THEN <<ParsedLineRow("dialogue", line, nextLine, line, lineRule)>>
             \o walkLines(lines, index + 2, lineRuleMap, knownSpeakers)
        ELSE IF hasNext /\ (nextIsKnownSpeaker \/ nextIsForcedSpeaker)
        THEN <<ParsedLineRow("direction", <<>>, line, line, lineRule)>>
             \o walkLines(lines, index + 1, lineRuleMap, knownSpeakers)
        ELSE IF hasNext /\ ~isNonDialogueClassification(nextRule)
        THEN <<ParsedLineRow("dialogue", line, nextLine, line, lineRule)>>
             \o walkLines(lines, index + 2, lineRuleMap, knownSpeakers)
        ELSE <<ParsedLineRow("direction", <<>>, line, line, lineRule)>>
             \o walkLines(lines, index + 1, lineRuleMap, knownSpeakers)

parseScriptLines_Mutant(rawText, blockedTerms, lineRuleMap, speakerNames) ==
    LET blockedSet == trimmedSet(blockedTerms)
        knownSpeakers == trimmedSet(speakerNames)
        lines == splitAndFilterLines(rawText, blockedSet)
    IN  walkLines(lines, 2, lineRuleMap, knownSpeakers)

parseScriptLines(rawText, blockedTerms, lineRuleMap, speakerNames) ==
    LET blockedSet == trimmedSet(blockedTerms)
        knownSpeakers == trimmedSet(speakerNames)
        lines == splitAndFilterLines(rawText, blockedSet)
    IN  walkLines(lines, 1, lineRuleMap, knownSpeakers)

formatParsedRowsToBody(rows) ==
    join([i \in 1..Len(rows) |->
             IF rows[i].kind = "dialogue"
             THEN rows[i].speaker \o <<LF>> \o rows[i].content
             ELSE rows[i].content],
         <<LF, LF>>)

-----------------------------------------------------------------------------
(* Inputs of the classifier                                                *)

Alice == <<"A","RI","SU">>
Bob   == <<"BO","BU">>
Hello == <<"KO","N","NI","CHI","HA">>
Yaa   == <<"YA","A">>
Door  == <<"KOU","KA","ON",":",SP,"DO","A">>

\* Pieces a pasted transcript is made of: names, a padded dialogue line, the
\* two viewer banners, a line ending in CR (so that the joining LF makes a
\* CR LF pair) and a blank line.
Fragments ==
    { Alice,
      <<SP>> \o Hello \o <<TAB>>,
      BannerLine,
      <<"S","e","k","a","i",SP,"V","i","e","w","e","r">>,
      Bob \o <<CR>>,
      Yaa,
      <<>> }

MaxFragments == 3

FragmentLists == UNION {[1..n -> Fragments] : n \in 0..MaxFragments}

\* "アリス\nこんにちは\n機能一覧\nボブ\nやあ"
BannerScenarioText == join(<<Alice, Hello, BannerLine, Bob, Yaa>>, <<LF>>)

\* "効果音: ドア\nアリス\nこんにちは"
DoorScenarioText == join(<<Door, Alice, Hello>>, <<LF>>)

RawTexts ==
    {join(fs, <<LF>>) : fs \in FragmentLists}
        \cup {BannerScenarioText, DoorScenarioText}

Classifications == {"speaker", "direction", "location"}

RuledLines == {Alice, Hello}

\* A Map<string, LineClassification>: a function on the lines that have a rule.
RuleMaps == UNION {[D -> Classifications] : D \in SUBSET RuledLines}

\* No blocked term, or three: one equal to a line once trimmed, one that
\* lines only contain, one that differs from a line only in case.
BlockedTermLists == {<<>>, << <<SP>> \o Yaa, <<"A">>, SekaiViewer >>}

SpeakerNameLists == {<<>>, << Alice \o <<SP>> >>, <<Alice, Bob>>}

-----------------------------------------------------------------------------
(* The classifier applied to every drawn input, then to its own output     *)
(* written back as text (what applyParserResult stores as the body).       *)

\* The editor is not running while the classifier is exercised alone.
NoRun == [op |-> "none", result |-> "none"]

\* bodyTagSelection === null
NoSelection == [start |-> -1, end |-> -1, selectedText |-> <<>>]

NoRequestYet == [start |-> -1, end |-> -1, tag |-> "none"]

TagQuiet == [op |-> "none", result |-> "none", request |-> NoRequestYet,
             refused |-> NoRequestYet]

TagsAtRest ==
    /\ bodyTagAnnotations = <<>>
    /\ bodyTagSelection = NoSelection
    /\ tagStore = {}
    /\ nextTagRowId = 1
    /\ tagCalls = <<>>
    /\ tagLast = TagQuiet

EditorAtRest ==
    /\ TagsAtRest
    /\ openBuffer = 0
    /\ subItemBodyDraft = <<>>
    /\ parsedLines = <<>>
    /\ filterTerms = <<>>
    /\ lineRules = <<>>
    /\ parserUndoStack = <<>>
    /\ parserRedoStack = <<>>
    /\ error = ""
    /\ timerArmed = FALSE
    /\ storeTerms = {}
    /\ storeRules = {}
    /\ nextRowId = 1
    /\ pending = <<>>
    /\ last = NoRun
    /\ trip = [phase |-> 0]

InitParse ==
    /\ EditorAtRest
    /\ pRaw \in RawTexts
    /\ pBlocked \in BlockedTermLists
    /\ pRules \in RuleMaps
    /\ pSpeakers \in SpeakerNameLists
    /\ pRows = <<>>
    /\ pBody = <<>>
    /\ pRows2 = <<>>
    /\ pStage = "input"

Classify ==
    /\ pStage = "input"
    /\ pRows' = parseScriptLines(pRaw, pBlocked, pRules, pSpeakers)
    /\ pStage' = "parsed"
    /\ UNCHANGED <<pRaw, pBlocked, pRules, pSpeakers, pBody, pRows2>>
    /\ UNCHANGED <<evars, svars, hvars, tvars, dvars>>

Reassemble ==
    /\ pStage = "parsed"
    /\ pBody' = formatParsedRowsToBody(pRows)
    /\ pStage' = "formatted"
    /\ UNCHANGED <<pRaw, pBlocked, pRules, pSpeakers, pRows, pRows2>>
    /\ UNCHANGED <<evars, svars, hvars, tvars, dvars>>

Reclassify ==
    /\ pStage = "formatted"
    /\ pRows2' = parseScriptLines(pBody, pBlocked, pRules, pSpeakers)
    /\ pStage' = "reparsed"
    /\ UNCHANGED <<pRaw, pBlocked, pRules, pSpeakers, pRows, pBody>>
    /\ UNCHANGED <<evars, svars, hvars, tvars, dvars>>

NextParse == Classify \/ Reassemble \/ Reclassify

SpecParse == InitParse /\ [][NextParse]_vars

-----------------------------------------------------------------------------
(* Properties of the classifier                                            *)

NonDialogueRuled(line) ==
    line \in DOMAIN pRules /\ pRules[line] \in {"direction", "location"}

\* C1 (rule precedence): once the input is classified, no row of kind
\* dialogue has as its speaker a line whose rule is direction or location,
\* also when that line is one of the known speakers.
C1_RulePrecedence ==
    pStage # "input" =>
        \A i \in 1..Len(pRows) :
            pRows[i].kind = "dialogue" => ~NonDialogueRuled(pRows[i].speaker)

\* A known speaker with a direction or location rule, followed by another
\* line, was classified and came out as a row of its rule's kind.
C1_Witness ==
    /\ pStage = "parsed"
    /\ \E i \in 1..Len(pRows) :
          /\ i < Len(pRows)
          /\ NonDialogueRuled(pRows[i].content)
          /\ pRows[i].content \in trimmedSet(pSpeakers)
          /\ pRows[i].kind = pRules[pRows[i].content]
          /\ ~NonDialogueRuled(pRows[i + 1].content)

\* C2 (round-trip stability): classifying the reassembled text with the
\* same terms, rules and speakers gives the rows of the first pass again.
C2_RoundTrip ==
    pStage = "reparsed" => pRows2 = pRows

BannerScenarioInput ==
    /\ pRaw = BannerScenarioText
    /\ pBlocked = <<>>
    /\ DOMAIN pRules = {}
    /\ pSpeakers = <<Alice, Bob>>

\* C3 as stated (banner scenario): the five-line input yields exactly the
\* two dialogue rows, the banner line producing no row.
C3_BannerDropped ==
    (BannerScenarioInput /\ pStage # "input") =>
        pRows = << ParsedLineRow("dialogue", Alice, Hello, Alice, null),
                   ParsedLineRow("dialogue", Bob, Yaa, Bob, null) >>

\* C3 as amended: the banner line is the third non-empty line, outside the
\* two-line window of the filter, so the input yields three rows: the two
\* dialogue rows with the banner line between them as a direction row.
C3_BannerKept ==
    (BannerScenarioInput /\ pStage # "input") =>
        pRows = << ParsedLineRow("dialogue", Alice, Hello, Alice, null),
                   ParsedLineRow("direction", <<>>, BannerLine, BannerLine, null),
                   ParsedLineRow("dialogue", Bob, Yaa, Bob, null) >>

\* The scenario input has been classified.
C3_Witness ==
    BannerScenarioInput /\ pStage = "parsed" /\ Len(pRows) = 3

-----------------------------------------------------------------------------
(* The editor: rows, history actions and the closures of one render        *)

\* speakerProfiles.map((profile) => profile.name): loaded once at sign-in.
SpeakerProfileNames == <<Alice>>

FilterTermRow(id, term) == [id |-> id, term |-> term, created_at |-> id]

ParserLineRuleRow(id, lineText, classification) ==
    [id |-> id, line_text |-> lineText, classification |-> classification,
     created_at |-> id]

\* ParserHistoryAction: the tagged union, every field present in every case.
SetFilterTerm(term, beforeEnabled, afterEnabled, reparse) ==
    [kind |-> "set_filter_term", term |-> term,
     beforeEnabled |-> beforeEnabled, afterEnabled |-> afterEnabled,
     lineText |-> <<>>, beforeClassification |-> null, afterClassification |-> null,
     beforeBody |-> <<>>, afterBody |-> <<>>, reparse |-> reparse]

SetLineRule(lineText, beforeClassification, afterClassification, reparse) ==
    [kind |-> "set_line_rule", term |-> <<>>,
     beforeEnabled |-> FALSE, afterEnabled |-> FALSE,
     lineText |-> lineText, beforeClassification |-> beforeClassification,
     afterClassification |-> afterClassification,
     beforeBody |-> <<>>, afterBody |-> <<>>, reparse |-> reparse]

ReplaceBodyDraft(beforeBody, afterBody) ==
    [kind |-> "replace_body_draft", term |-> <<>>,
     beforeEnabled |-> FALSE, afterEnabled |-> FALSE,
     lineText |-> <<>>, beforeClassification |-> null, afterClassification |-> null,
     beforeBody |-> beforeBody, afterBody |-> afterBody, reparse |-> FALSE]

isParserHistoryActionNoop_Mutant(action) == FALSE

isParserHistoryActionNoop(action) ==
    IF action.kind = "set_filter_term"
    THEN action.beforeEnabled = action.afterEnabled
    ELSE IF action.kind = "set_line_rule"
    THEN action.beforeClassification = action.afterClassification
    ELSE action.beforeBody = action.afterBody

\* filterTerms.map((term) => term.term)
termsOf(rows) == [i \in 1..Len(rows) |-> rows[i].term]

\* new Map(lineRules.map((rule) => [rule.line_text, rule.classification])):
\* a later row wins over an earlier one with the same line_text.
lineRuleMapOf(rules) ==
    [line \in {rules[i].line_text : i \in 1..Len(rules)} |->
        LET at == {i \in 1..Len(rules) : rules[i].line_text = line}
        IN  rules[CHOOSE i \in at : \A j \in at : j <= i].classification]

\* Map.prototype.set / delete on a copy
mapSet(m, key, value) ==
    [k \in DOMAIN m \cup {key} |-> IF k = key THEN value ELSE m[k]]

mapDelete(m, key) == [k \in DOMAIN m \ {key} |-> m[k]]

withoutTerm(rows, term) ==
    LET Other(row) == row.term # term IN SelectSeq(rows, Other)

withoutLine_Mutant(rules, lineText) == rules

withoutLine(rules, lineText) ==
    LET Other(rule) == rule.line_text # lineText IN SelectSeq(rules, Other)

\* Array.prototype.sort by created_at (stable)
RECURSIVE sortByCreatedAt(_)
sortByCreatedAt(rows) ==
    IF rows = <<>> THEN <<>>
    ELSE LET sorted == sortByCreatedAt(SubSeq(rows, 1, Len(rows) - 1))
             row == rows[Len(rows)]
             before == {i \in 1..Len(sorted) : sorted[i].created_at <= row.created_at}
             n == Cardinality(before)
         IN  SubSeq(sorted, 1, n) \o <<row>> \o SubSeq(sorted, n + 1, Len(sorted))

findTerm(rows, term) == {i \in 1..Len(rows) : rows[i].term = term}

findLine(rules, lineText) == {i \in 1..Len(rules) : rules[i].line_text = lineText}

firstOf(indices) == CHOOSE i \in indices : \A j \in indices : i <= j

\* The state a handler reads through its closure and writes through setters.
Cur ==
    [body |-> subItemBodyDraft, parsed |-> parsedLines, terms |-> filterTerms,
     rules |-> lineRules, undo |-> parserUndoStack, redo |-> parserRedoStack,
     error |-> error, armed |-> timerArmed, touched |-> FALSE]

\* What the continuation of an awaiting handler still reads from the render
\* it was created in: subItemBodyDraft, filterTerms, lineRules (lineRuleMap).
Closure ==
    [body |-> subItemBodyDraft, terms |-> filterTerms, rules |-> lineRules]

ErrNothingToParse == "nothing_to_parse"
ErrEmptyTerm      == "empty_term"
ErrPersistence    == "persistence_error"

-----------------------------------------------------------------------------
(* applyParserHistoryAction, split at its await                            *)

applyParserResult(st, body, ruleMap, blockedTerms) ==
    LET parsed == parseScriptLines(body, blockedTerms, ruleMap, SpeakerProfileNames)
    IN  IF Len(parsed) = 0
        THEN [st EXCEPT !.parsed = <<>>, !.error = ErrNothingToParse]
        ELSE [st EXCEPT !.error = "", !.parsed = parsed,
                        !.body = formatParsedRowsToBody(parsed)]

NoRequest == [verb |-> "none", text |-> <<>>, classification |-> null, id |-> 0]

NoRow == [id |-> 0, term |-> <<>>, line_text |-> <<>>, classification |-> null,
          created_at |-> 0]

\* The store call applyParserHistoryAction awaits, built from the closure
\* snap of the render the handler was created in; NoRequest when it returns
\* without awaiting one.
requestOf(action, direction, snap) ==
    IF action.kind = "replace_body_draft" THEN NoRequest
    ELSE IF action.kind = "set_filter_term"
    THEN LET trimmed == trim(action.term)
             enableTerm == IF direction = "forward" THEN action.afterEnabled
                           ELSE action.beforeEnabled
             existing == findTerm(snap.terms, trimmed)
         IN  IF trimmed = <<>> THEN NoRequest
             ELSE IF enableTerm
             THEN [verb |-> "upsert_term", text |-> trimmed,
                   classification |-> null, id |-> 0]
             ELSE IF existing # {}
             THEN [verb |-> "delete_term", text |-> trimmed, classification |-> null,
                   id |-> snap.terms[firstOf(existing)].id]
             ELSE NoRequest
    ELSE LET trimmed == trim(action.lineText)
             nextClassification ==
                 IF direction = "forward" THEN action.afterClassification
                 ELSE action.beforeClassification
             existing == findLine(snap.rules, trimmed)
         IN  IF trimmed = <<>> THEN NoRequest
             ELSE IF nextClassification # null
             THEN [verb |-> "upsert_rule", text |-> trimmed,
                   classification |-> nextClassification, id |-> 0]
             ELSE IF existing # {}
             THEN [verb |-> "delete_rule", text |-> trimmed, classification |-> null,
                   id |-> snap.rules[firstOf(existing)].id]
             ELSE NoRequest

\* What applyParserHistoryAction sets once its store call (if any) succeeded:
\* st is the state the functional setters see, snap the closure of the
\* handler, data the row the store returned.
applyAfter(st, snap, action, direction, data) ==
    IF action.kind = "replace_body_draft"
    THEN LET nextBody == IF direction = "forward" THEN action.afterBody
                         ELSE action.beforeBody
         IN  [st EXCEPT !.error = "", !.body = nextBody,
                        !.parsed = parseScriptLines(nextBody, termsOf(snap.terms),
                                       lineRuleMapOf(snap.rules), SpeakerProfileNames)]
    ELSE IF action.kind = "set_filter_term"
    THEN LET trimmed == trim(action.term)
             enableTerm == IF direction = "forward" THEN action.afterEnabled
                           ELSE action.beforeEnabled
             nextRows ==
                 IF enableTerm
                 THEN sortByCreatedAt(Append(withoutTerm(snap.terms, trimmed),
                          FilterTermRow(data.id, data.term)))
                 ELSE withoutTerm(snap.terms, trimmed)
             st1 == [st EXCEPT !.error = "", !.terms = nextRows, !.touched = TRUE]
         IN  IF action.reparse
             THEN applyParserResult(st1, snap.body, lineRuleMapOf(snap.rules),
                                    termsOf(nextRows))
             ELSE st1
    ELSE LET trimmed == trim(action.lineText)
             nextClassification ==
                 IF direction = "forward" THEN action.afterClassification
                 ELSE action.beforeClassification
             nextRules ==
                 IF nextClassification # null
                 THEN mapSet(lineRuleMapOf(snap.rules), trimmed, nextClassification)
                 ELSE mapDelete(lineRuleMapOf(snap.rules), trimmed)
             st1 == [st EXCEPT
                       !.rules = IF nextClassification # null
                                 THEN Append(withoutLine(st.rules, trimmed),
                                          ParserLineRuleRow(data.id, data.line_text,
                                                            data.classification))
                                 ELSE withoutLine(st.rules, trimmed),
                       !.error = "", !.touched = TRUE]
         IN  IF trimmed = <<>> THEN st
             ELSE IF action.reparse
             THEN applyParserResult(st1, snap.body, nextRules, termsOf(snap.terms))
             ELSE st1

\* What the failed store call leaves: the message, nothing else.
applyFailed_Mutant(st, snap, action, direction) ==
    [applyAfter(st, snap, action, direction, NoRow) EXCEPT !.error = ErrPersistence]

applyFailed(st, snap, action, direction) ==
    [st EXCEPT !.error = ErrPersistence]

\* The stack updates of commitParserHistoryAction / undoParserAction /
\* redoParserAction after applyParserHistoryAction returned true.
dropLast(stack) == SubSeq(stack, 1, Len(stack) - 1)

finishRun_Mutant(op, st, action) ==
    IF op = "commit"
    THEN [st EXCEPT !.undo = Append(st.undo, action)]
    ELSE IF op = "undo"
    THEN [st EXCEPT !.undo = dropLast(st.undo), !.redo = Append(st.redo, action)]
    ELSE [st EXCEPT !.redo = dropLast(st.redo), !.undo = Append(st.undo, action)]

finishRun(op, st, action) ==
    IF op = "commit"
    THEN [st EXCEPT !.undo = Append(st.undo, action), !.redo = <<>>]
    ELSE IF op = "undo"
    THEN [st EXCEPT !.undo = dropLast(st.undo), !.redo = Append(st.redo, action)]
    ELSE [st EXCEPT !.redo = dropLast(st.redo), !.undo = Append(st.undo, action)]

\* The reparse effect after a render: it runs when the body, filterTerms or
\* lineRuleMap changed; a blank body clears the rows at once, any other body
\* starts the 250 ms timer.
afterRender(st, oldBody) ==
    IF st.body # oldBody \/ st.touched
    THEN IF trim(st.body) = <<>>
         THEN [st EXCEPT !.parsed = <<>>, !.armed = FALSE, !.touched = FALSE]
         ELSE [st EXCEPT !.armed = TRUE, !.touched = FALSE]
    ELSE [st EXCEPT !.touched = FALSE]

-----------------------------------------------------------------------------
(* Bounds and inputs of the editor                                         *)

MaxHistory  == 2    \* actions on the undo stack before commits stop
MaxInFlight == 2    \* store calls awaiting a reply at once
MaxRowIds   == 2    \* rows the store creates in one run

\* Texts the user types or pastes into the textarea.
TypedBodies == { Yaa \o <<SP>> }

\* The body of the document that is open.
OpenedBodies == { join(<<Alice, Yaa>>, <<LF>>) }

\* What the user submits in the blocked-term form.
TermDrafts == { Yaa \o <<SP>> }

\* The rows whose buttons the user presses, and the classifications chosen.
ButtonLines == { Yaa }
ButtonClassifications == { "direction" }

-----------------------------------------------------------------------------
(* History variables                                                       *)

NoAction == ReplaceBodyDraft(<<>>, <<>>)

\* The handler that returned (or suspended) in the last step: which one, how
\* it ended, the action a commit was given, and how many redo entries a
\* successful commit found.
Quiet == [op |-> "none", result |-> "none", action |-> NoAction, cleared |-> 0]

\* What the history claims compare: the text, the rows, the blocked terms
\* as a set, the rules as a map, and both stacks.
View(st) ==
    [body |-> st.body, parsed |-> st.parsed,
     terms |-> {st.terms[i].term : i \in 1..Len(st.terms)},
     rules |-> lineRuleMapOf(st.rules),
     undo |-> st.undo, redo |-> st.redo]

NoView == View([body |-> <<>>, parsed |-> <<>>, terms |-> <<>>, rules |-> <<>>,
                undo |-> <<>>, redo |-> <<>>])

\* What undo is to give back: the text, the blocked terms as a set and the
\* rules as a map.
Overrides(st) ==
    [body |-> st.body,
     terms |-> {st.terms[i].term : i \in 1..Len(st.terms)},
     rules |-> lineRuleMapOf(st.rules)]

NoOverrides == Overrides([body |-> <<>>, terms |-> <<>>, rules |-> <<>>])

\* No round trip under way.
NoTrip == [phase |-> 0, snap |-> NoView, before |-> NoOverrides]

\* A round trip is a commit that returned true with no call outstanding,
\* then undo, then redo, each returning true, nothing else in between.
tripAfter(op, result, st, callsLeft) ==
    IF op = "commit" /\ result = "ok" /\ callsLeft = 0
    THEN [phase |-> 1, snap |-> View(st), before |-> Overrides(Cur)]
    ELSE IF op = "undo" /\ result = "awaiting" /\ trip.phase = 1
    THEN [phase |-> 2, snap |-> trip.snap, before |-> trip.before]
    ELSE IF op = "undo" /\ result = "ok" /\ trip.phase \in {1, 2}
    THEN [phase |-> 3, snap |-> trip.snap, before |-> trip.before]
    ELSE IF op = "redo" /\ result = "awaiting" /\ trip.phase = 3
    THEN [phase |-> 4, snap |-> trip.snap, before |-> NoOverrides]
    ELSE IF op = "redo" /\ result = "ok" /\ trip.phase \in {3, 4}
    THEN [phase |-> 5, snap |-> trip.snap, before |-> NoOverrides]
    ELSE NoTrip

-----------------------------------------------------------------------------
(* Steps of the editor                                                     *)

Install(st) ==
    /\ subItemBodyDraft' = st.body
    /\ parsedLines' = st.parsed
    /\ filterTerms' = st.terms
    /\ lineRules' = st.rules
    /\ parserUndoStack' = st.undo
    /\ parserRedoStack' = st.redo
    /\ error' = st.error
    /\ timerArmed' = st.armed
    /\ UNCHANGED <<pvars, tvars, dvars>>

\* A handler returns, leaving st; the component renders again.
Returned(op, result, action, st, callsLeft) ==
    LET rendered == afterRender(st, subItemBodyDraft)
    IN  /\ Install(rendered)
        /\ last' = [op |-> op, result |-> result,
                     action |-> IF op = "commit" THEN action ELSE NoAction,
                     cleared |-> IF op = "commit" /\ result = "ok"
                                 THEN Len(parserRedoStack) ELSE 0]
        /\ trip' = tripAfter(op, result, rendered, callsLeft)

\* Something else happens: no commit, undo or redo returned.
Other(st) ==
    /\ Install(afterRender(st, subItemBodyDraft))
    /\ last' = Quiet
    /\ trip' = NoTrip

upsertsPending ==
    Cardinality({i \in 1..Len(pending) :
                    pending[i].request.verb \in {"upsert_term", "upsert_rule"}})

\* Entries on the stacks once every outstanding call has returned, at most.
historyLoad == Len(parserUndoStack) + Len(parserRedoStack) + Len(pending)

\* commit / undo / redo from the call of applyParserHistoryAction to its
\* await (the call is sent and the handler suspended) or, when it awaits
\* nothing, to its return.
Run(op, action, direction) ==
    LET snap == Closure
        request == requestOf(action, direction, snap)
    IN  IF action.kind = "set_filter_term" /\ trim(action.term) = <<>>
        THEN /\ Returned(op, "failed", action, [Cur EXCEPT !.error = ErrEmptyTerm],
                         Len(pending))
             /\ UNCHANGED svars
        ELSE IF request.verb # "none"
        THEN /\ Len(pending) < MaxInFlight
             /\ op # "commit" => historyLoad <= MaxHistory
             /\ request.verb \in {"upsert_term", "upsert_rule"}
                    => nextRowId + upsertsPending <= MaxRowIds
             /\ pending' = Append(pending,
                    [op |-> op, action |-> action, direction |-> direction,
                     request |-> request, snap |-> snap, buffer |-> openBuffer])
             /\ last' = [op |-> op, result |-> "awaiting",
                          action |-> IF op = "commit" THEN action ELSE NoAction,
                          cleared |-> 0]
             /\ trip' = tripAfter(op, "awaiting", Cur, Len(pending) + 1)
             /\ UNCHANGED <<pvars, tvars, dvars, evars, storeTerms, storeRules,
                            nextRowId>>
        ELSE /\ Returned(op, "ok", action,
                         finishRun(op, applyAfter(Cur, snap, action, direction, NoRow),
                                   action),
                         Len(pending))
             /\ UNCHANGED svars

commitParserHistoryAction(action) ==
    IF isParserHistoryActionNoop(action)
    THEN /\ Returned("commit", "noop", action, Cur, Len(pending))
         /\ UNCHANGED svars
    ELSE /\ Len(parserUndoStack) + Len(pending) < MaxHistory
         /\ Run("commit", action, "forward")

undoParserAction ==
    IF parserUndoStack = <<>>
    THEN /\ Returned("undo", "empty", NoAction, Cur, Len(pending))
         /\ UNCHANGED svars
    ELSE Run("undo", parserUndoStack[Len(parserUndoStack)], "backward")

redoParserAction ==
    IF parserRedoStack = <<>>
    THEN /\ Returned("redo", "empty", NoAction, Cur, Len(pending))
         /\ UNCHANGED svars
    ELSE Run("redo", parserRedoStack[Len(parserRedoStack)], "forward")

\* ---- the handlers behind the buttons

upsertFilterTerm(termValue, reparse) ==
    LET trimmed == trim(termValue)
    IN  IF trimmed = <<>>
        THEN Other([Cur EXCEPT !.error = ErrEmptyTerm]) /\ UNCHANGED svars
        ELSE commitParserHistoryAction(
                 SetFilterTerm(trimmed, findTerm(filterTerms, trimmed) # {}, TRUE,
                               reparse))

\* The form of the settings page: upsertFilterTerm(filterTermDraft).
submitFilterTerm ==
    \E draft \in TermDrafts : upsertFilterTerm(draft, FALSE)

\* The "block this line" button of a row: upsertFilterTerm(row.sourceLine, true).
blockRowLine ==
    \E i \in 1..Len(parsedLines) :
        /\ parsedLines[i].sourceLine \in ButtonLines
        /\ upsertFilterTerm(parsedLines[i].sourceLine, TRUE)

deleteFilterTerm ==
    \E i \in 1..Len(filterTerms) :
        commitParserHistoryAction(
            SetFilterTerm(filterTerms[i].term,
                          findTerm(filterTerms, filterTerms[i].term) # {}, FALSE, FALSE))

upsertLineRule ==
    \E i \in 1..Len(parsedLines), classification \in ButtonClassifications :
        LET trimmed == trim(parsedLines[i].sourceLine)
        IN  /\ trimmed \in ButtonLines
            /\ commitParserHistoryAction(
                   SetLineRule(trimmed, getLineRule(lineRuleMapOf(lineRules), trimmed),
                               classification, TRUE))

removeLineRule ==
    \E i \in 1..Len(lineRules) :
        LET rule == lineRules[i]
            known == getLineRule(lineRuleMapOf(lineRules), rule.line_text)
        IN  commitParserHistoryAction(
                SetLineRule(rule.line_text,
                            IF known # null THEN known ELSE rule.classification,
                            null, TRUE))

runSpeakerSplit ==
    LET parsed == parseScriptLines(subItemBodyDraft, termsOf(filterTerms),
                                   lineRuleMapOf(lineRules), SpeakerProfileNames)
    IN  IF Len(parsed) = 0
        THEN /\ Other([Cur EXCEPT !.parsed = <<>>, !.error = ErrNothingToParse])
             /\ UNCHANGED svars
        ELSE commitParserHistoryAction(
                 ReplaceBodyDraft(subItemBodyDraft, formatParsedRowsToBody(parsed)))

deleteParsedRow ==
    \E rowIndex \in 1..Len(parsedLines) :
        LET kept == SubSeq(parsedLines, 1, rowIndex - 1)
                        \o SubSeq(parsedLines, rowIndex + 1, Len(parsedLines))
        IN  commitParserHistoryAction(
                ReplaceBodyDraft(subItemBodyDraft, formatParsedRowsToBody(kept)))

\* The textarea's onChange.
typeBody ==
    \E text \in TypedBodies :
        /\ text # subItemBodyDraft
        /\ Other([Cur EXCEPT !.body = text])
        /\ UNCHANGED svars

\* The 250 ms timer of the reparse effect fires.
debouncedParse ==
    /\ timerArmed
    /\ Other([Cur EXCEPT
                !.parsed = parseScriptLines(subItemBodyDraft, termsOf(filterTerms),
                               lineRuleMapOf(lineRules), SpeakerProfileNames),
                !.armed = FALSE])
    /\ UNCHANGED svars

\* ---- the backing store

\* upsert ... onConflict / delete ... eq('id'), and the row returned.
serve(request) ==
    IF request.verb = "upsert_term"
    THEN LET found == {row \in storeTerms : row.term = request.text}
             row == IF found # {} THEN CHOOSE r \in found : TRUE
                    ELSE FilterTermRow(nextRowId, request.text)
         IN  [terms |-> storeTerms \cup {row}, rules |-> storeRules,
              nextRowId |-> IF found # {} THEN nextRowId ELSE nextRowId + 1,
              data |-> [NoRow EXCEPT !.id = row.id, !.term = row.term]]
    ELSE IF request.verb = "delete_term"
    THEN [terms |-> {row \in storeTerms : row.id # request.id}, rules |-> storeRules,
          nextRowId |-> nextRowId, data |-> NoRow]
    ELSE IF request.verb = "upsert_rule"
    THEN LET found == {row \in storeRules : row.line_text = request.text}
             row == IF found # {}
                    THEN [(CHOOSE r \in found : TRUE) EXCEPT
                              !.classification = request.classification]
                    ELSE ParserLineRuleRow(nextRowId, request.text,
                                           request.classification)
         IN  [terms |-> storeTerms, rules |-> (storeRules \ found) \cup {row},
              nextRowId |-> IF found # {} THEN nextRowId ELSE nextRowId + 1,
              data |-> [NoRow EXCEPT !.id = row.id, !.line_text = row.line_text,
                                     !.classification = row.classification]]
    ELSE [terms |-> storeTerms, rules |-> {row \in storeRules : row.id # request.id},
          nextRowId |-> nextRowId, data |-> NoRow]

withoutCall(calls, i) == SubSeq(calls, 1, i - 1) \o SubSeq(calls, i + 1, Len(calls))

\* The store performs a call and the suspended handler resumes with the row.
replyOk ==
    \E i \in 1..Len(pending) :
        LET call == pending[i]
            served == serve(call.request)
        IN  /\ pending' = withoutCall(pending, i)
            /\ storeTerms' = served.terms
            /\ storeRules' = served.rules
            /\ nextRowId' = served.nextRowId
            /\ Returned(call.op, "ok", call.action,
                        finishRun(call.op,
                                  applyAfter(Cur, call.snap, call.action,
                                             call.direction, served.data),
                                  call.action),
                        Len(pending) - 1)

\* The call fails; the suspended handler resumes with the error.
replyError ==
    \E i \in 1..Len(pending) :
        LET call == pending[i]
        IN  /\ pending' = withoutCall(pending, i)
            /\ UNCHANGED <<storeTerms, storeRules, nextRowId>>
            /\ Returned(call.op, "failed", call.action,
                        applyFailed(Cur, call.snap, call.action, call.direction),
                        Len(pending) - 1)

-----------------------------------------------------------------------------
(* The editor with a document open                                         *)

ClassifierAtRest ==
    /\ pRaw = <<>>
    /\ pBlocked = <<>>
    /\ pRules = <<>>
    /\ pSpeakers = <<>>
    /\ pRows = <<>>
    /\ pBody = <<>>
    /\ pRows2 = <<>>
    /\ pStage = "off"

Init ==
    /\ ClassifierAtRest
    /\ TagsAtRest
    /\ openBuffer = 1
    /\ subItemBodyDraft \in OpenedBodies
    /\ parsedLines = <<>>
    /\ filterTerms = <<>>
    /\ lineRules = <<>>
    /\ parserUndoStack = <<>>
    /\ parserRedoStack = <<>>
    /\ error = ""
    /\ timerArmed = (trim(subItemBodyDraft) # <<>>)
    /\ storeTerms = {}
    /\ storeRules = {}
    /\ nextRowId = 1
    /\ pending = <<>>
    /\ last = Quiet
    /\ trip = NoTrip

Next ==
    \/ submitFilterTerm
    \/ blockRowLine
    \/ deleteFilterTerm
    \/ upsertLineRule
    \/ removeLineRule
    \/ runSpeakerSplit
    \/ deleteParsedRow
    \/ undoParserAction
    \/ redoParserAction
    \/ typeBody
    \/ debouncedParse
    \/ replyOk
    \/ replyError

Spec == Init /\ [][Next]_vars

-----------------------------------------------------------------------------
(* The history contract                                                    *)

\* C4 (history reversibility): when a commit returned true with no call
\* outstanding and undo, then redo, ran to their return right after it, the
\* body draft, the parsed lines, the blocked-term set, the rule map and both
\* stacks are what they were right after the commit.
C4_UndoRedoRestores ==
    trip.phase = 5 => View(Cur) = trip.snap

\* C5 (commit): a commit that returns true for a non-no-op action appends
\* exactly that action to the undo stack and leaves the redo stack empty.
C5_CommitPushesAndClears ==
    [][(last'.op = "commit" /\ last'.result = "ok")
          => /\ parserUndoStack' = Append(parserUndoStack, last'.action)
             /\ parserRedoStack' = <<>>]_vars

\* A commit that found two undone actions returned: the undo stack holds
\* the committed action alone and the redo stack is empty.
C5_Witness ==
    /\ last.op = "commit"
    /\ last.result = "ok"
    /\ last.cleared = 2
    /\ parserUndoStack = <<last.action>>
    /\ parserRedoStack = <<>>

SidesEqual(action) ==
    IF action.kind = "set_filter_term"
    THEN action.beforeEnabled = action.afterEnabled
    ELSE IF action.kind = "set_line_rule"
    THEN action.beforeClassification = action.afterClassification
    ELSE action.beforeBody = action.afterBody

\* C6 (no-op suppression): a commit of an action whose before and after
\* sides are equal changes neither stack, nor the body draft, the parsed
\* lines, the blocked terms or the rules, and sends nothing to the store.
C6_NoopSuppressed ==
    [][(last'.op = "commit" /\ SidesEqual(last'.action))
          => UNCHANGED <<parserUndoStack, parserRedoStack, subItemBodyDraft,
                         parsedLines, filterTerms, lineRules, pending,
                         storeTerms, storeRules>>]_vars

\* The row button chose the classification the line already has, with
\* history on the stack.
C6_Witness ==
    /\ last.op = "commit"
    /\ last.result = "noop"
    /\ last.action.kind = "set_line_rule"
    /\ last.action.afterClassification # null
    /\ parserUndoStack # <<>>

\* C7 (fail-closed persistence): when the store call of a commit, undo or
\* redo fails, the handler returns with both stacks, the blocked terms, the
\* rules, the body draft and the parsed lines as it found them.
C7_FailClosed ==
    [][last'.result = "failed"
          => UNCHANGED <<parserUndoStack, parserRedoStack, filterTerms,
                         lineRules, subItemBodyDraft, parsedLines>>]_vars

\* The store call of an undo failed.
C7_Witness ==
    /\ last.op = "undo"
    /\ last.result = "failed"
    /\ error = ErrPersistence
    /\ parserUndoStack # <<>>

RECURSIVE reversed(_)
reversed(stack) ==
    IF stack = <<>> THEN <<>>
    ELSE Append(reversed(Tail(stack)), Head(stack))

HistoryLine == parserUndoStack \o reversed(parserRedoStack)

\* C8 (undo / redo): a step of undo or redo moves the top action from one
\* stack to the other or changes nothing, so the undo stack followed by the
\* reversed redo stack stays the same.
C8_HistoryLineConstant ==
    [][last'.op \in {"undo", "redo"} => HistoryLine' = HistoryLine]_vars

-----------------------------------------------------------------------------
(* Body tag annotations                                                    *)

\* bodyTagTarget for each document: document 1 is a sub-item with a body of
\* its own, document 2 an episode.  The id 0 stands for null.
targetOf(buffer) ==
    IF buffer = 1 THEN [threadId |-> 1, episodeId |-> 0]
    ELSE [threadId |-> 0, episodeId |-> buffer]

bodyTagTarget == targetOf(openBuffer)

\* The row without selected_text and created_at (the store creates ids in
\* the order of created_at).
BodyTagAnnotationRow(id, tagId, target, start, end) ==
    [id |-> id, tag_id |-> tagId, thread_id |-> target.threadId,
     episode_id |-> target.episodeId, start_offset |-> start, end_offset |-> end]

ErrOverlap == "overlapping_body_tag_range"

\* String.prototype.slice(start, end) for 0 <= start <= end <= length
slice(text, start, end) == SubSeq(text, start + 1, end)

hasOverlapConflict_Mutant(rows, start, end) ==
    \E i \in 1..Len(rows) :
        rows[i].start_offset < end /\ start < rows[i].end_offset

hasOverlapConflict(rows, start, end) ==
    \E i \in 1..Len(rows) :
        /\ rows[i].start_offset < end
        /\ start < rows[i].end_offset
        /\ ~(rows[i].start_offset = start /\ rows[i].end_offset = end)

duplicate(rows, tagId, start, end) ==
    \E i \in 1..Len(rows) :
        /\ rows[i].tag_id = tagId
        /\ rows[i].start_offset = start
        /\ rows[i].end_offset = end

MaxTagRows  == 2    \* annotation rows the store creates in one run
MaxTagCalls == 2    \* annotation calls awaiting a reply at once

\* The body of the document whose text is tagged (nine characters).
TaggedBody == join(<<Alice, Yaa \o <<SP>> \o Yaa>>, <<LF>>)

\* selectionStart / selectionEnd of the textarea: two ranges that overlap,
\* a range of white space and a collapsed caret.
Selections == { <<0, 5>>, <<3, 8>>, <<3, 4>>, <<5, 5>> }

BodyTagPresets == { "tagA", "tagB" }

NoTagCall == [verb |-> "none", id |-> 0, tag_id |-> "none",
              thread_id |-> 0, episode_id |-> 0,
              start_offset |-> -1, end_offset |-> -1, selected_text |-> <<>>]

insertsPending ==
    Cardinality({i \in 1..Len(tagCalls) : tagCalls[i].verb = "insert"})

\* The annotation handlers touch nothing of the parser or its history.
TagFrame ==
    UNCHANGED <<pvars, svars, hvars, dvars, subItemBodyDraft, parsedLines,
                filterTerms, lineRules, parserUndoStack, parserRedoStack,
                timerArmed>>

handleBodySelection(start, end) ==
    /\ bodyTagSelection' =
           IF end <= start THEN NoSelection
           ELSE IF trim(slice(subItemBodyDraft, start, end)) = <<>> THEN NoSelection
           ELSE [start |-> start, end |-> end,
                 selectedText |-> slice(subItemBodyDraft, start, end)]
    /\ tagLast' = [tagLast EXCEPT !.op = "select", !.result = "none",
                                  !.request = [start |-> start, end |-> end,
                                               tag |-> "none"]]
    /\ UNCHANGED <<error, bodyTagAnnotations, tagStore, nextTagRowId, tagCalls>>
    /\ TagFrame

\* The textarea's onSelect: selectionStart and selectionEnd lie within the
\* text the textarea shows.
selectRange ==
    \E range \in Selections :
        /\ range[2] <= Len(subItemBodyDraft)
        /\ handleBodySelection(range[1], range[2])

\* From the click on a tag button to the conflict error, the silent
\* return on a duplicate, or the await of the insert.
addBodyTagToSelection(tagId) ==
    /\ bodyTagSelection # NoSelection
    /\ LET start == bodyTagSelection.start
           end == bodyTagSelection.end
           request == [start |-> start, end |-> end, tag |-> tagId]
       IN  IF hasOverlapConflict(bodyTagAnnotations, start, end)
           THEN /\ error' = ErrOverlap
                /\ tagLast' = [op |-> "add", result |-> "conflict",
                               request |-> request, refused |-> request]
                /\ UNCHANGED tagCalls
           ELSE IF duplicate(bodyTagAnnotations, tagId, start, end)
           THEN /\ error' = ""
                /\ tagLast' = [tagLast EXCEPT !.op = "add", !.result = "duplicate",
                                              !.request = request]
                /\ UNCHANGED tagCalls
           ELSE /\ Len(tagCalls) < MaxTagCalls
                /\ nextTagRowId + insertsPending <= MaxTagRows
                /\ error' = ""
                /\ tagCalls' = Append(tagCalls,
                       [NoTagCall EXCEPT !.verb = "insert", !.tag_id = tagId,
                                         !.thread_id = bodyTagTarget.threadId,
                                         !.episode_id = bodyTagTarget.episodeId,
                                         !.start_offset = start, !.end_offset = end,
                                         !.selected_text = bodyTagSelection.selectedText])
                /\ tagLast' = [tagLast EXCEPT !.op = "add", !.result = "awaiting",
                                              !.request = request]
    /\ UNCHANGED <<bodyTagAnnotations, bodyTagSelection, tagStore, nextTagRowId>>
    /\ TagFrame

pressTagButton ==
    \E tagId \in BodyTagPresets : addBodyTagToSelection(tagId)

\* From the click on a chip of the preview to the await of the delete.
deleteBodyTagAnnotation(annotationId) ==
    /\ Len(tagCalls) < MaxTagCalls
    /\ tagCalls' = Append(tagCalls,
           [NoTagCall EXCEPT !.verb = "delete", !.id = annotationId])
    /\ tagLast' = [tagLast EXCEPT !.op = "delete", !.result = "awaiting",
                                  !.request = NoRequestYet]
    /\ UNCHANGED <<error, bodyTagAnnotations, bodyTagSelection, tagStore,
                   nextTagRowId>>
    /\ TagFrame

\* ---- the preview of the tagged body

\* The comparator of the sort in bodyTagGroups: start, then end, then
\* created_at (the store creates ids in the order of created_at).
rowBefore(a, b) ==
    \/ a.start_offset < b.start_offset
    \/ a.start_offset = b.start_offset /\ a.end_offset < b.end_offset
    \/ a.start_offset = b.start_offset /\ a.end_offset = b.end_offset /\ a.id < b.id

\* Array.prototype.sort with that comparator (stable).
RECURSIVE sortRows(_)
sortRows(rows) ==
    IF rows = <<>> THEN <<>>
    ELSE LET sorted == sortRows(SubSeq(rows, 1, Len(rows) - 1))
             row == rows[Len(rows)]
             n == Cardinality({i \in 1..Len(sorted) : ~rowBefore(row, sorted[i])})
         IN  SubSeq(sorted, 1, n) \o <<row>> \o SubSeq(sorted, n + 1, Len(sorted))

inBody_Mutant(row, body) ==
    /\ row.start_offset >= 0
    /\ row.end_offset > row.start_offset

\* The filter of bodyTagGroups: rows whose span lies inside the body.
inBody(row, body) ==
    /\ row.start_offset >= 0
    /\ row.end_offset > row.start_offset
    /\ row.end_offset <= Len(body)

\* The loop of bodyTagGroups: a row joins the group of its span or opens one.
RECURSIVE groupRows(_, _, _)
groupRows(body, normalized, groups) ==
    IF normalized = <<>> THEN groups
    ELSE LET row == Head(normalized)
             existing == {i \in 1..Len(groups) :
                             /\ groups[i].start = row.start_offset
                             /\ groups[i].end = row.end_offset}
         IN  IF existing # {}
             THEN LET i == firstOf(existing)
                  IN  groupRows(body, Tail(normalized),
                          [groups EXCEPT ![i].annotations = Append(@, row)])
             ELSE groupRows(body, Tail(normalized),
                      Append(groups,
                          [start |-> row.start_offset, end |-> row.end_offset,
                           text |-> slice(body, row.start_offset, row.end_offset),
                           annotations |-> <<row>>]))

bodyTagGroups(body, rows) ==
    IF body = <<>> \/ rows = <<>> THEN <<>>
    ELSE LET Inside(row) == inBody(row, body)
         IN  groupRows(body, sortRows(SelectSeq(rows, Inside)), <<>>)

\* A segment of the preview; its key holds kind, start and end.
PlainSegment(body, start, end) ==
    [kind |-> "plain", start |-> start, end |-> end,
     text |-> slice(body, start, end), annotations |-> <<>>]

TaggedSegment(body, group) ==
    [kind |-> "tagged", start |-> group.start, end |-> group.end,
     text |-> slice(body, group.start, group.end),
     annotations |-> group.annotations]

RECURSIVE segmentsFrom_Mutant(_, _, _, _)
segmentsFrom_Mutant(body, groups, cursor, segments) ==
    IF groups = <<>>
    THEN IF cursor < Len(body)
         THEN Append(segments, PlainSegment(body, cursor, Len(body)))
         ELSE segments
    ELSE LET group == Head(groups)
             plain == IF cursor < group.start
                      THEN <<PlainSegment(body, cursor, group.start)>>
                      ELSE <<>>
         IN  segmentsFrom_Mutant(body, Tail(groups), group.end,
                 segments \o plain \o <<TaggedSegment(body, group)>>)

\* The loop of bodyTagPreviewSegments and the plain segment after it.
RECURSIVE segmentsFrom(_, _, _, _)
segmentsFrom(body, groups, cursor, segments) ==
    IF groups = <<>>
    THEN IF cursor < Len(body)
         THEN Append(segments, PlainSegment(body, cursor, Len(body)))
         ELSE segments
    ELSE LET group == Head(groups)
             plain == IF cursor < group.start
                      THEN <<PlainSegment(body, cursor, group.start)>>
                      ELSE <<>>
         IN  IF group.start < cursor
             THEN segmentsFrom(body, Tail(groups), cursor, segments)
             ELSE segmentsFrom(body, Tail(groups), group.end,
                      segments \o plain \o <<TaggedSegment(body, group)>>)

bodyTagPreviewSegments(body, groups) ==
    IF body = <<>> THEN <<>>
    ELSE IF groups = <<>> THEN <<PlainSegment(body, 0, Len(body))>>
    ELSE segmentsFrom(body, groups, 0, <<>>)

\* What the preview shows for the current draft and annotations.
previewSegments ==
    bodyTagPreviewSegments(subItemBodyDraft,
                           bodyTagGroups(subItemBodyDraft, bodyTagAnnotations))

\* The chips of the preview: one for each annotation of a tagged segment.
chipIds ==
    UNION { {previewSegments[i].annotations[j].id :
                 j \in 1..Len(previewSegments[i].annotations)} :
            i \in 1..Len(previewSegments) }

pressChip ==
    \E annotationId \in chipIds : deleteBodyTagAnnotation(annotationId)

tagReplyOk_Mutant ==
    \E i \in 1..Len(tagCalls) :
        LET call == tagCalls[i]
            inserted == BodyTagAnnotationRow(nextTagRowId, call.tag_id,
                           [threadId |-> call.thread_id, episodeId |-> call.episode_id],
                           call.start_offset, call.end_offset)
        IN  /\ call.verb \in {"insert", "delete"}
            /\ tagCalls' = withoutCall(tagCalls, i)
            /\ IF call.verb = "insert"
               THEN /\ tagStore' = tagStore \cup {inserted}
                    /\ nextTagRowId' = nextTagRowId + 1
                    /\ bodyTagAnnotations' = Append(bodyTagAnnotations, inserted)
                    /\ bodyTagSelection' = NoSelection
                    /\ tagLast' = [tagLast EXCEPT
                                     !.op = "add", !.result = "ok",
                                     !.request = [start |-> call.start_offset,
                                                  end |-> call.end_offset,
                                                  tag |-> call.tag_id]]
               ELSE /\ tagStore' = {row \in tagStore : row.id # call.id}
                    /\ bodyTagAnnotations' =
                           LET removed == {row.tag_id : row \in
                                              {r \in tagStore : r.id = call.id}}
                               Kept(row) == row.tag_id \notin removed
                           IN  SelectSeq(bodyTagAnnotations, Kept)
                    /\ tagLast' = [tagLast EXCEPT !.op = "delete", !.result = "ok",
                                                  !.request = NoRequestYet]
                    /\ UNCHANGED <<nextTagRowId, bodyTagSelection>>
            /\ UNCHANGED error
            /\ TagFrame

\* The store performs the call and the suspended handler resumes.
tagReplyOk ==
    \E i \in 1..Len(tagCalls) :
        LET call == tagCalls[i]
            inserted == BodyTagAnnotationRow(nextTagRowId, call.tag_id,
                           [threadId |-> call.thread_id, episodeId |-> call.episode_id],
                           call.start_offset, call.end_offset)
        IN  /\ call.verb \in {"insert", "delete"}
            /\ tagCalls' = withoutCall(tagCalls, i)
            /\ IF call.verb = "insert"
               THEN /\ tagStore' = tagStore \cup {inserted}
                    /\ nextTagRowId' = nextTagRowId + 1
                    /\ bodyTagAnnotations' = Append(bodyTagAnnotations, inserted)
                    /\ bodyTagSelection' = NoSelection
                    /\ tagLast' = [tagLast EXCEPT
                                     !.op = "add", !.result = "ok",
                                     !.request = [start |-> call.start_offset,
                                                  end |-> call.end_offset,
                                                  tag |-> call.tag_id]]
               ELSE /\ tagStore' = {row \in tagStore : row.id # call.id}
                    /\ bodyTagAnnotations' =
                           LET Kept(row) == row.id # call.id
                           IN  SelectSeq(bodyTagAnnotations, Kept)
                    /\ tagLast' = [tagLast EXCEPT !.op = "delete", !.result = "ok",
                                                  !.request = NoRequestYet]
                    /\ UNCHANGED <<nextTagRowId, bodyTagSelection>>
            /\ UNCHANGED error
            /\ TagFrame

\* The call fails; the suspended handler resumes with the error.
tagReplyError ==
    \E i \in 1..Len(tagCalls) :
        LET call == tagCalls[i]
        IN  /\ call.verb \in {"insert", "delete"}
            /\ tagCalls' = withoutCall(tagCalls, i)
            /\ error' = ErrPersistence
            /\ tagLast' = [tagLast EXCEPT
                             !.op = IF call.verb = "insert" THEN "add" ELSE "delete",
                             !.result = "failed",
                             !.request = [start |-> call.start_offset,
                                          end |-> call.end_offset,
                                          tag |-> call.tag_id]]
            /\ UNCHANGED <<bodyTagAnnotations, bodyTagSelection, tagStore,
                           nextTagRowId>>
            /\ TagFrame

\* A document with TaggedBody open, nothing tagged yet.
InitTag ==
    /\ ClassifierAtRest
    /\ TagsAtRest
    /\ openBuffer = 1
    /\ subItemBodyDraft = TaggedBody
    /\ parsedLines = <<>>
    /\ filterTerms = <<>>
    /\ lineRules = <<>>
    /\ parserUndoStack = <<>>
    /\ parserRedoStack = <<>>
    /\ error = ""
    /\ timerArmed = FALSE
    /\ storeTerms = {}
    /\ storeRules = {}
    /\ nextRowId = 1
    /\ pending = <<>>
    /\ last = Quiet
    /\ trip = NoTrip

NextTag ==
    \/ selectRange
    \/ pressTagButton
    \/ pressChip
    \/ tagReplyOk
    \/ tagReplyError

SpecTag == InitTag /\ [][NextTag]_vars

-----------------------------------------------------------------------------
(* The annotation contract                                                 *)

\* C9 (annotation non-overlap): no two annotations in memory whose spans
\* differ overlap, that is start1 < end2 and start2 < end1.
C9_NoOverlap ==
    \A i, j \in 1..Len(bodyTagAnnotations) :
        LET a == bodyTagAnnotations[i]
            b == bodyTagAnnotations[j]
        IN  (a.start_offset # b.start_offset \/ a.end_offset # b.end_offset)
                => ~(a.start_offset < b.end_offset /\ b.start_offset < a.end_offset)

\* Some annotation in memory overlaps the requested span with another span.
Clashes(rows, request) ==
    \E i \in 1..Len(rows) :
        /\ rows[i].start_offset < request.end
        /\ request.start < rows[i].end_offset
        /\ <<rows[i].start_offset, rows[i].end_offset>> # <<request.start, request.end>>

\* The requested span is tagged already, but not with the requested tag.
SameSpanOtherTag(rows, request) ==
    /\ ~Clashes(rows, request)
    /\ \E i \in 1..Len(rows) :
           <<rows[i].start_offset, rows[i].end_offset>> = <<request.start, request.end>>
    /\ \A i \in 1..Len(rows) :
           <<rows[i].start_offset, rows[i].end_offset>> = <<request.start, request.end>>
               => rows[i].tag_id # request.tag

\* C10 (conflict rule): a click on a tag button whose selection overlaps an
\* annotation of another span ends with the conflict error, no call to the
\* store and the annotations unchanged; a click whose selection is the span
\* of existing annotations with other tags sends the insert, and when the
\* insert succeeds the annotation is appended to the annotations in memory.
C10_ConflictRule ==
    [][tagLast'.op = "add"
          => LET request == tagLast'.request
                 clicked == tagLast'.result \notin {"ok", "failed"}
             IN  /\ (clicked /\ Clashes(bodyTagAnnotations, request))
                       => /\ tagLast'.result = "conflict"
                          /\ error' = ErrOverlap
                          /\ UNCHANGED <<bodyTagAnnotations, tagStore, tagCalls>>
                 /\ (clicked /\ SameSpanOtherTag(bodyTagAnnotations, request))
                       => /\ tagLast'.result = "awaiting"
                          /\ Len(tagCalls') = Len(tagCalls) + 1
                          /\ UNCHANGED bodyTagAnnotations
                 /\ tagLast'.result = "ok"
                       => /\ Len(bodyTagAnnotations') = Len(bodyTagAnnotations) + 1
                          /\ \A i \in 1..Len(bodyTagAnnotations) :
                                 bodyTagAnnotations'[i] = bodyTagAnnotations[i]
                          /\ LET added == bodyTagAnnotations'[Len(bodyTagAnnotations')]
                             IN  /\ added.tag_id = request.tag
                                 /\ added.start_offset = request.start
                                 /\ added.end_offset = request.end]_vars

\* (0,5,tagA) was added, (3,8,tagB) was refused, (0,5,tagB) was added: two
\* annotations on [0,5).
C10_Witness ==
    /\ tagLast.op = "add"
    /\ tagLast.result = "ok"
    /\ tagLast.request = [start |-> 0, end |-> 5, tag |-> "tagB"]
    /\ tagLast.refused = [start |-> 3, end |-> 8, tag |-> "tagB"]
    /\ Len(bodyTagAnnotations) = 2
    /\ bodyTagAnnotations[1].tag_id = "tagA"
    /\ bodyTagAnnotations[2].tag_id = "tagB"
    /\ \A i \in 1..2 : /\ bodyTagAnnotations[i].start_offset = 0
                        /\ bodyTagAnnotations[i].end_offset = 5

-----------------------------------------------------------------------------
(* Selecting another document                                              *)

\* The sub-items whose body can be opened, and the body stored with each.
Buffers == { 1, 2 }

BufferBody(id) ==
    IF id = 1 THEN join(<<Alice, Yaa>>, <<LF>>) ELSE Yaa \o <<SP>>

\* The effect on selectedSubItem?.id / selectedEpisode?.id: the body of the
\* selected document replaces the draft, the rows, the selection and both
\* stacks are reset; the reparse effect then starts its timer for a body
\* that is not blank.  Handlers awaiting a reply are not cancelled.  The
\* reload of the annotations (loadBodyTagAnnotations) is a later step.
selectBuffer(id) ==
    /\ id # openBuffer
    /\ openBuffer' = id
    /\ subItemBodyDraft' = BufferBody(id)
    /\ bodyTagSelection' = NoSelection
    /\ parsedLines' = <<>>
    /\ parserUndoStack' = <<>>
    /\ parserRedoStack' = <<>>
    /\ timerArmed' = (trim(BufferBody(id)) # <<>>)
    /\ last' = [Quiet EXCEPT !.op = "select"]
    /\ trip' = NoTrip
    /\ UNCHANGED <<pvars, svars, filterTerms, lineRules, error,
                   bodyTagAnnotations, tagStore, nextTagRowId, tagCalls, tagLast>>

switchBuffer ==
    \E id \in Buffers : selectBuffer(id)

\* The settings form and the history keys, with two documents to choose from.
NextSwitch ==
    \/ submitFilterTerm
    \/ deleteFilterTerm
    \/ undoParserAction
    \/ redoParserAction
    \/ replyOk
    \/ replyError
    \/ switchBuffer

SpecSwitch == Init /\ [][NextSwitch]_vars

\* C11 (history does not span documents): a step that opens another buffer
\* leaves both stacks empty, and a handler that was called while another
\* buffer was open puts nothing on the stacks of the open one when it
\* resumes.
C11_HistoryOfOpenBuffer ==
    [][/\ openBuffer' # openBuffer
            => parserUndoStack' = <<>> /\ parserRedoStack' = <<>>
       /\ \A i \in 1..Len(pending) :
             (pending[i].buffer # openBuffer /\ pending' = withoutCall(pending, i))
                 => UNCHANGED <<parserUndoStack, parserRedoStack>>]_vars

\* C12 (serialization of mutations): at most one commit, undo, redo,
\* annotation add or annotation delete is awaiting its reply from the store.
C12_OneCallAtATime ==
    Len(pending) + Len(tagCalls) <= 1

-----------------------------------------------------------------------------
(* The preview while the body is edited                                    *)

MaxLoaded == 3      \* annotations of the document found in the store

\* Spans of the stored annotations: two that overlap, one that follows.
LoadedSpans == { <<0, 5>>, <<3, 8>>, <<5, 9>> }

RECURSIVE LoadedRows(_)
LoadedRows(n) ==
    IF n = 0 THEN { <<>> }
    ELSE LoadedRows(n - 1) \cup
         { Append(rows, BodyTagAnnotationRow(Len(rows) + 1, tagId, targetOf(1),
                                              span[1], span[2])) :
             rows \in {r \in LoadedRows(n - 1) : Len(r) = n - 1},
             tagId \in BodyTagPresets, span \in LoadedSpans }

\* What the user leaves in the textarea: the whole text, its first five
\* characters, its first three, nothing.
EditedBodies ==
    { TaggedBody, SubSeq(TaggedBody, 1, 5), SubSeq(TaggedBody, 1, 3), <<>> }

\* The textarea's onChange, and the reparse effect after the render.
editTaggedBody ==
    \E text \in EditedBodies :
        /\ text # subItemBodyDraft
        /\ subItemBodyDraft' = text
        /\ bodyTagSelection' = NoSelection
        /\ parsedLines' = IF trim(text) = <<>> THEN <<>> ELSE parsedLines
        /\ timerArmed' = (trim(text) # <<>>)
        /\ tagLast' = [tagLast EXCEPT !.op = "edit", !.result = "none",
                                      !.request = NoRequestYet]
        /\ UNCHANGED <<pvars, svars, hvars, dvars, filterTerms, lineRules,
                       parserUndoStack, parserRedoStack, error,
                       bodyTagAnnotations, tagStore, nextTagRowId, tagCalls>>

\* A document with TaggedBody open and its annotations loaded.
InitPreview ==
    /\ ClassifierAtRest
    /\ openBuffer = 1
    /\ subItemBodyDraft = TaggedBody
    /\ parsedLines = <<>>
    /\ filterTerms = <<>>
    /\ lineRules = <<>>
    /\ parserUndoStack = <<>>
    /\ parserRedoStack = <<>>
    /\ error = ""
    /\ timerArmed = FALSE
    /\ storeTerms = {}
    /\ storeRules = {}
    /\ nextRowId = 1
    /\ pending = <<>>
    /\ last = Quiet
    /\ trip = NoTrip
    /\ bodyTagAnnotations \in LoadedRows(MaxLoaded)
    /\ bodyTagSelection = NoSelection
    /\ tagStore = {bodyTagAnnotations[i] : i \in 1..Len(bodyTagAnnotations)}
    /\ nextTagRowId = Len(bodyTagAnnotations) + 1
    /\ tagCalls = <<>>
    /\ tagLast = TagQuiet

NextPreview ==
    \/ editTaggedBody
    \/ pressChip
    \/ tagReplyOk
    \/ tagReplyError

SpecPreview == InitPreview /\ [][NextPreview]_vars

-----------------------------------------------------------------------------
(* The preview contract                                                    *)

RECURSIVE textOf(_)
textOf(segments) ==
    IF segments = <<>> THEN <<>>
    ELSE Head(segments).text \o textOf(Tail(segments))

\* The annotations in memory with the span [start, end).
rowsOfSpan(start, end) ==
    {bodyTagAnnotations[i] : i \in {j \in 1..Len(bodyTagAnnotations) :
        /\ bodyTagAnnotations[j].start_offset = start
        /\ bodyTagAnnotations[j].end_offset = end}}

rendered(row) ==
    \E i \in 1..Len(previewSegments) :
        \E j \in 1..Len(previewSegments[i].annotations) :
            previewSegments[i].annotations[j] = row

\* C13 (render coverage): the segments of the preview start at 0, each
\* starts where the one before it ends, the last ends at the length of the
\* body, none is empty, and their texts concatenated are the body; a tagged
\* segment holds, once each, all annotations in memory that have its span.
C13_SegmentsCoverBody ==
    LET segments == previewSegments
        n == Len(segments)
    IN  /\ textOf(segments) = subItemBodyDraft
        /\ (subItemBodyDraft = <<>>) <=> (n = 0)
        /\ (n > 0) => (/\ segments[1].start = 0
                       /\ segments[n].end = Len(subItemBodyDraft))
        /\ \A i \in 1..n :
              /\ segments[i].start < segments[i].end
              /\ (i < n) => (segments[i].end = segments[i + 1].start)
              /\ (segments[i].kind = "plain") => (segments[i].annotations = <<>>)
              /\ (segments[i].kind = "tagged") =>
                    LET held == segments[i].annotations
                    IN  /\ {held[j] : j \in 1..Len(held)}
                              = rowsOfSpan(segments[i].start, segments[i].end)
                        /\ Len(held)
                              = Cardinality(rowsOfSpan(segments[i].start, segments[i].end))

\* Two annotations share a rendered span, a third overlaps them and is
\* left out, and plain text follows.
C13_Witness ==
    /\ \E i \in 1..Len(previewSegments) : Len(previewSegments[i].annotations) = 2
    /\ \E i \in 1..Len(bodyTagAnnotations) :
          /\ inBody(bodyTagAnnotations[i], subItemBodyDraft)
          /\ ~rendered(bodyTagAnnotations[i])
    /\ previewSegments[Len(previewSegments)].kind = "plain"

-----------------------------------------------------------------------------
(* Reporting an empty result                                               *)

\* C15 (empty result is reported): when a commit that runs the classifier
\* (a ReplaceBodyDraft, or an action with reparse) returns true and leaves
\* no parsed line, the error shown is the 'nothing to parse' message.
C15_EmptyResultReported ==
    [][(/\ last'.op = "commit"
        /\ last'.result = "ok"
        /\ last'.action.kind = "replace_body_draft" \/ last'.action.reparse
        /\ parsedLines' = <<>>)
          => error' = ErrNothingToParse]_vars

-----------------------------------------------------------------------------
(* The cursor walk of the classifier                                       *)

\* The lines the walk runs over, for the drawn input.
SurvivingLines == splitAndFilterLines(pRaw, trimmedSet(pBlocked))

SpeakerRuled(line) == line \in DOMAIN pRules /\ pRules[line] = "speaker"

\* One of the speaker names, trimmed, is the line.
KnownSpeaker(line) == \E i \in 1..Len(pSpeakers) : trim(pSpeakers[i]) = line

PlausibleSpeaker(line) == SpeakerRuled(line) \/ KnownSpeaker(line)

\* The cursor reached the last line: the last row is not a Dialogue row
\* (a Dialogue row takes the last two lines).
CursorOnLastLine ==
    /\ pStage # "input"
    /\ SurvivingLines # <<>>
    /\ pRows # <<>>
    /\ pRows[Len(pRows)].kind # "dialogue"

NoEmptyDialogue ==
    \A i \in 1..Len(pRows) : pRows[i].kind = "dialogue" => pRows[i].content # <<>>

\* C16 as stated (end of input): when the cursor is on the last surviving
\* line and that line is speaker-ruled or a known speaker, its row is a
\* Direction row; and no Dialogue row has an empty content.
C16_EndOfInput ==
    /\ NoEmptyDialogue
    /\ (CursorOnLastLine /\ PlausibleSpeaker(SurvivingLines[Len(SurvivingLines)]))
          => pRows[Len(pRows)].kind = "direction"

\* C16 amended: the same for a last line that carries no Direction or
\* Location rule; a last line with such a rule is a row of the rule's kind
\* even when it is a known speaker.
C16_EndOfInputUnruled ==
    LET line == SurvivingLines[Len(SurvivingLines)]
        row == pRows[Len(pRows)]
    IN  /\ NoEmptyDialogue
        /\ (CursorOnLastLine /\ PlausibleSpeaker(line) /\ ~NonDialogueRuled(line))
              => (row.kind = "direction" /\ row.speaker = <<>> /\ row.content = line)
        /\ (CursorOnLastLine /\ NonDialogueRuled(line))
              => (row.kind = pRules[line] /\ row.content = line)

\* A known speaker without a rule is the last of several lines and the
\* cursor reaches it.
C16_Witness ==
    /\ CursorOnLastLine
    /\ Len(pRows) >= 2
    /\ SurvivingLines[Len(SurvivingLines)] = Alice
    /\ Alice \in trimmedSet(pSpeakers)
    /\ Alice \notin DOMAIN pRules
    /\ pRows[Len(pRows)].kind = "direction"

-----------------------------------------------------------------------------
(* Selections of white space                                               *)

\* selected_text of a row or of an insert on its way: the text of its span
\* (the body is not edited between the selection and the insert's reply).
BlankSpan(start, end) == trim(slice(subItemBodyDraft, start, end)) = <<>>

NoBlankAnnotation ==
    /\ \A i \in 1..Len(bodyTagAnnotations) :
          ~BlankSpan(bodyTagAnnotations[i].start_offset, bodyTagAnnotations[i].end_offset)
    /\ \A row \in tagStore : ~BlankSpan(row.start_offset, row.end_offset)
    /\ \A i \in 1..Len(tagCalls) :
          tagCalls[i].verb = "insert"
              => ~BlankSpan(tagCalls[i].start_offset, tagCalls[i].end_offset)

\* C17 (selections of white space): selecting a span whose text is empty
\* after trimming leaves no selection and reports to the user, and no
\* annotation of a blank span is ever in storage, in memory or on its way
\* to storage.
C17_BlankSelectionReported ==
    /\ []NoBlankAnnotation
    /\ [][(/\ tagLast'.op = "select"
            /\ tagLast'.request.start < tagLast'.request.end
            /\ BlankSpan(tagLast'.request.start, tagLast'.request.end))
              => (bodyTagSelection' = NoSelection /\ error' # "")]_vars

-----------------------------------------------------------------------------
(* The boilerplate filter                                                  *)

\* The non-empty lines of the raw text, trimmed, before anything is removed.
NonEmptyLines ==
    LET pieces == splitOnLF(normalizeNewlines(pRaw))
        NonEmpty(piece) == trim(piece) # <<>>
        kept == SelectSeq(pieces, NonEmpty)
    IN  [i \in 1..Len(kept) |-> trim(kept[i])]

\* Contains 'sekai viewer' in any case, or is the banner string.
LooksLikeBanner(line) ==
    \/ \E i \in 1..Len(line) :
          /\ i + Len(SekaiViewer) - 1 <= Len(line)
          /\ toLowerCase(SubSeq(line, i, i + Len(SekaiViewer) - 1)) = SekaiViewer
    \/ line = BannerLine

\* The places (among the non-empty lines) of the lines that survive when
\* only the first two places are tested for a banner.
SurvivingPlaces ==
    {i \in 1..Len(NonEmptyLines) :
        /\ ~(i <= 2 /\ LooksLikeBanner(NonEmptyLines[i]))
        /\ NonEmptyLines[i] \notin trimmedSet(pBlocked)}

\* C18 (boilerplate filter): a banner line is dropped exactly at the first
\* or second non-empty place, places being counted before blocked terms are
\* removed; at the third or a later place it survives like any other line
\* and is the text of a row.
C18_BannerFirstTwoOnly ==
    pStage # "input" =>
        /\ Len(SurvivingLines) = Cardinality(SurvivingPlaces)
        /\ \A i \in SurvivingPlaces :
              SurvivingLines[Cardinality({j \in SurvivingPlaces : j <= i})]
                  = NonEmptyLines[i]
        /\ \A i \in SurvivingPlaces :
              LooksLikeBanner(NonEmptyLines[i])
                  => \E k \in 1..Len(pRows) :
                        \/ pRows[k].sourceLine = NonEmptyLines[i]
                        \/ pRows[k].content = NonEmptyLines[i]

\* A banner at the first place is dropped and one at the third place is a
\* row of the output.
C18_Witness ==
    /\ pStage = "parsed"
    /\ Len(NonEmptyLines) = 3
    /\ LooksLikeBanner(NonEmptyLines[1])
    /\ NonEmptyLines[3] = BannerLine
    /\ SurvivingLines = <<Alice, BannerLine>>
    /\ \E k \in 1..Len(pRows) : pRows[k].content = BannerLine

-----------------------------------------------------------------------------
(* Lines with a Direction or Location rule                                 *)

Occurrences(lines, line) == Cardinality({i \in 1..Len(lines) : lines[i] = line})

\* The rows whose text is the line, as the row's own line or as its content.
RowsOf(line) ==
    {k \in 1..Len(pRows) : pRows[k].sourceLine = line \/ pRows[k].content = line}

\* C19 (ruled lines): each occurrence of a surviving line with a Direction
\* or Location rule is exactly one row, of the rule's kind, with empty
\* speaker and the line as content; the line is never the content of a
\* Dialogue row.
C19_RuledLineOwnRow ==
    pStage # "input" =>
        \A line \in DOMAIN pRules :
            NonDialogueRuled(line) =>
                /\ Cardinality(RowsOf(line)) = Occurrences(SurvivingLines, line)
                /\ \A k \in RowsOf(line) :
                      /\ pRows[k].kind = pRules[line]
                      /\ pRows[k].speaker = <<>>
                      /\ pRows[k].content = line
                      /\ pRows[k].sourceLine = line

\* A line with a Location rule follows a known speaker and a line without
\* a rule follows it: it is a Location row between two Direction rows.
C19_Witness ==
    /\ pStage = "parsed"
    /\ SurvivingLines = <<Alice, Hello, Yaa>>
    /\ Alice \in trimmedSet(pSpeakers)
    /\ Hello \in DOMAIN pRules
    /\ pRules[Hello] = "location"
    /\ Alice \notin DOMAIN pRules
    /\ Len(pRows) = 3
    /\ pRows[2] = ParsedLineRow("location", <<>>, Hello, Hello, "location")

-----------------------------------------------------------------------------
(* The step rule of the cursor walk                                        *)

\* The rows the step rule gives from position index on: one condition
\* decides between the pair and the single Direction row.
RECURSIVE StepRows(_, _)
StepRows(lines, index) ==
    IF index > Len(lines) THEN <<>>
    ELSE LET current == lines[index]
             rule == IF current \in DOMAIN pRules THEN pRules[current] ELSE null
             exists == index < Len(lines)
             next == IF exists THEN lines[index + 1] ELSE <<>>
             pair == /\ exists
                     /\ ~NonDialogueRuled(next)
                     /\ PlausibleSpeaker(current) \/ ~PlausibleSpeaker(next)
         IN  IF NonDialogueRuled(current)
             THEN <<[kind |-> rule, speaker |-> <<>>, content |-> current,
                     sourceLine |-> current, sourceRule |-> rule]>>
                  \o StepRows(lines, index + 1)
             ELSE IF pair
             THEN <<[kind |-> "dialogue", speaker |-> current, content |-> next,
                     sourceLine |-> current, sourceRule |-> rule]>>
                  \o StepRows(lines, index + 2)
             ELSE <<[kind |-> "direction", speaker |-> <<>>, content |-> current,
                     sourceLine |-> current, sourceRule |-> rule]>>
                  \o StepRows(lines, index + 1)

\* C20 (step rule): at a line without a Direction/Location rule the walk
\* emits Dialogue(current, next) and advances by two exactly when a next
\* line exists, has no Direction/Location rule, and the current line is a
\* plausible speaker or the next line is not; otherwise it emits the current
\* line as Direction and advances by one. Each row carries the current line
\* as sourceLine and its rule, or null, as sourceRule.
C20_StepRule ==
    pStage # "input" => pRows = StepRows(SurvivingLines, 1)

\* A line before a known speaker is a Direction row and the known speaker
\* takes the line after it as content.
C20_Witness ==
    /\ pStage = "parsed"
    /\ pRules = <<>>
    /\ KnownSpeaker(Alice)
    /\ SurvivingLines = <<Yaa, Alice, Hello>>
    /\ pRows = << ParsedLineRow("direction", <<>>, Yaa, Yaa, null),
                  ParsedLineRow("dialogue", Alice, Hello, Alice, null) >>

-----------------------------------------------------------------------------
(* Blocked terms                                                           *)

\* The line is, character for character, one of the blocked terms trimmed.
IsBlockedTerm(line) == \E i \in 1..Len(pBlocked) : trim(pBlocked[i]) = line

\* The places of the line that the banner filter leaves.
PlacesPastBanner(line) ==
    {i \in 1..Len(NonEmptyLines) :
        NonEmptyLines[i] = line /\ ~(i <= 2 /\ LooksLikeBanner(line))}

\* C21 (blocked terms): no row has a blocked term as speaker or content,
\* and past the banner filter a line is dropped exactly when it equals a
\* blocked term: a line that only contains one, or differs from one in
\* case, keeps every occurrence.
C21_BlockedExactOnly ==
    pStage = "parsed" =>
        /\ \A k \in 1..Len(pRows) :
              ~IsBlockedTerm(pRows[k].speaker) /\ ~IsBlockedTerm(pRows[k].content)
        /\ \A i \in 1..Len(NonEmptyLines) :
              LET line == NonEmptyLines[i]
              IN  Occurrences(SurvivingLines, line)
                      = IF IsBlockedTerm(line) THEN 0
                        ELSE Cardinality(PlacesPastBanner(line))

\* One line equals a blocked term and is dropped; two others survive, one
\* containing a blocked term and one equal to a blocked term up to case.
C21_Witness ==
    /\ pStage = "parsed"
    /\ Len(pBlocked) = 3
    /\ NonEmptyLines = <<Yaa, Alice, <<"S","e","k","a","i",SP,"V","i","e","w","e","r">> >>
    /\ SurvivingLines = <<Alice, <<"S","e","k","a","i",SP,"V","i","e","w","e","r">> >>
    /\ Len(pRows) >= 1

-----------------------------------------------------------------------------
(* Conservation of the surviving lines                                     *)

\* The lines of the rows in order: speaker then content for a Dialogue row,
\* content for any other row.
RECURSIVE Flatten(_)
Flatten(rows) ==
    IF rows = <<>> THEN <<>>
    ELSE (IF Head(rows).kind = "dialogue"
          THEN <<Head(rows).speaker, Head(rows).content>>
          ELSE <<Head(rows).content>>) \o Flatten(Tail(rows))

\* C22 (conservation and order): the rows, flattened, are exactly the
\* surviving lines in their order, and n surviving lines give at least
\* n / 2 (rounded up) and at most n rows.
C22_LinesConserved ==
    pStage = "parsed" =>
        /\ Flatten(pRows) = SurvivingLines
        /\ 2 * Len(pRows) >= Len(SurvivingLines)
        /\ Len(pRows) <= Len(SurvivingLines)

\* Three surviving lines, the same line twice among them, become a
\* Dialogue row and a Direction row.
C22_Witness ==
    /\ pStage = "parsed"
    /\ SurvivingLines = <<Alice, Alice, Yaa>>
    /\ Len(pRows) = 2
    /\ pRows[1].kind = "dialogue"
    /\ pRows[2].kind = "direction"

-----------------------------------------------------------------------------
(* The rows after an action that reparses                                  *)

\* The action a commit, undo or redo that just returned true has moved:
\* it is on top of the stack the handler pushed it on.
MovedAction(op, undo, redo) ==
    IF op = "undo" THEN redo[Len(redo)] ELSE undo[Len(undo)]

\* C23 (reparse obligation): when a commit, undo or redo of an action that
\* reparses (reparse = true, or any ReplaceBodyDraft) returned true, the
\* rows shown are the classification of the body, the blocked terms and
\* the rules as they stand after the operation.
C23_RowsMatchBody ==
    [][(/\ last'.op \in {"commit", "undo", "redo"}
        /\ last'.result = "ok"
        /\ LET action == MovedAction(last'.op, parserUndoStack', parserRedoStack')
           IN  action.kind = "replace_body_draft" \/ action.reparse)
          => parsedLines' = parseScriptLines(subItemBodyDraft', termsOf(filterTerms'),
                                lineRuleMapOf(lineRules'), SpeakerProfileNames)]_vars

-----------------------------------------------------------------------------
(* Tagging while the body is rewritten                                     *)

\* A document with TaggedBody open, nothing tagged yet, the reparse timer
\* of the first render running.
InitOffsets ==
    /\ ClassifierAtRest
    /\ TagsAtRest
    /\ openBuffer = 1
    /\ subItemBodyDraft = TaggedBody
    /\ parsedLines = <<>>
    /\ filterTerms = <<>>
    /\ lineRules = <<>>
    /\ parserUndoStack = <<>>
    /\ parserRedoStack = <<>>
    /\ error = ""
    /\ timerArmed = TRUE
    /\ storeTerms = {}
    /\ storeRules = {}
    /\ nextRowId = 1
    /\ pending = <<>>
    /\ last = Quiet
    /\ trip = NoTrip

\* A tag button pressed while no annotation call is outstanding.
pressTagButtonIdle == tagCalls = <<>> /\ pressTagButton

\* Selections and tag buttons next to everything that changes the body:
\* keystrokes, the speaker split, row deletions, undo and redo. The runs
\* are followed up to the sending of an insert; the store answers it with
\* an error, so the annotation set stays as it was.
NextOffsets ==
    \/ selectRange
    \/ pressTagButtonIdle
    \/ tagReplyError
    \/ editTaggedBody
    \/ debouncedParse
    \/ runSpeakerSplit
    \/ deleteParsedRow
    \/ undoParserAction
    \/ redoParserAction

SpecOffsets == InitOffsets /\ [][NextOffsets]_vars

\* C24 (offsets valid at creation): when addBodyTagToSelection sends an
\* insert, 0 <= start < end <= length of the body on screen and the
\* selected_text it sends is that body's slice(start, end).
C24_OffsetsValidAtAdd ==
    [][Len(tagCalls') = Len(tagCalls) + 1
          => LET call == tagCalls'[Len(tagCalls')]
             IN  /\ 0 <= call.start_offset
                 /\ call.start_offset < call.end_offset
                 /\ call.end_offset <= Len(subItemBodyDraft')
                 /\ call.selected_text
                       = slice(subItemBodyDraft', call.start_offset, call.end_offset)]_vars

-----------------------------------------------------------------------------
(* Deleting an annotation                                                  *)

\* C25 (delete frame): when the delete of annotation id returns, the body
\* draft, the parsed lines and both history stacks are as before; after a
\* successful delete storage and memory hold what they held without the
\* annotation with that id, every other annotation as it was; after a
\* failed delete storage and memory are unchanged.
C25_DeleteExact ==
    [][\A i \in 1..Len(tagCalls) :
          (/\ tagCalls[i].verb = "delete"
           /\ tagCalls' = withoutCall(tagCalls, i)
           /\ tagLast'.op = "delete")
            => LET id == tagCalls[i].id
                   NotThis(row) == row.id # id
               IN  /\ UNCHANGED <<subItemBodyDraft, parsedLines,
                                  parserUndoStack, parserRedoStack>>
                   /\ tagLast'.result = "ok"
                        => /\ tagStore' = {row \in tagStore : row.id # id}
                           /\ bodyTagAnnotations' = SelectSeq(bodyTagAnnotations, NotThis)
                   /\ tagLast'.result = "failed"
                        => UNCHANGED <<tagStore, bodyTagAnnotations>>]_vars

\* One of three loaded annotations has been deleted; the two others are
\* in memory and in storage.
C25_Witness ==
    /\ tagLast.op = "delete"
    /\ tagLast.result = "ok"
    /\ Len(bodyTagAnnotations) = 2
    /\ tagStore = {bodyTagAnnotations[1], bodyTagAnnotations[2]}
    /\ bodyTagAnnotations[1].tag_id = bodyTagAnnotations[2].tag_id
    /\ subItemBodyDraft = TaggedBody

-----------------------------------------------------------------------------
(* One override per line and per term                                      *)

\* C26 (uniqueness of overrides): the rule list in memory holds at most one
\* rule per line text and the blocked-term list holds each term at most
\* once.
C26_OverridesUnique ==
    /\ \A i, j \in 1..Len(lineRules) :
          lineRules[i].line_text = lineRules[j].line_text => i = j
    /\ \A i, j \in 1..Len(filterTerms) :
          filterTerms[i].term = filterTerms[j].term => i = j

\* The rule of a line was set, taken back by undo and set again by redo,
\* as a new row of the store: the list holds that one rule.
C26_Witness ==
    /\ last.op = "redo"
    /\ last.result = "ok"
    /\ Len(lineRules) = 1
    /\ lineRules[1].line_text = Yaa
    /\ lineRules[1].id = 2
    /\ storeTerms = {}
    /\ Len(parserUndoStack) = 1

-----------------------------------------------------------------------------
(* The caches and the store                                                *)

\* The blocked terms and the line-to-classification pairs in memory are
\* exactly those of the rows of the store.
CachesMatchStore ==
    /\ {filterTerms[i].term : i \in 1..Len(filterTerms)}
          = {row.term : row \in storeTerms}
    /\ {<<lineRules[i].line_text, lineRules[i].classification>> :
            i \in 1..Len(lineRules)}
          = {<<row.line_text, row.classification>> : row \in storeRules}

\* C27 (cache coherence): whenever a commit, undo or redo has run to its
\* return, with or without success and whatever calls are still
\* outstanding, the blocked terms and rules in memory are those of the
\* store.
C27_CachesCoherent ==
    (last.op \in {"commit", "undo", "redo"} /\ last.result \in {"ok", "failed"})
        => CachesMatchStore

-----------------------------------------------------------------------------
(* Undo against commit                                                     *)

\* C28 (undo inverts commit): when a commit returned true with no call
\* outstanding and undo ran to its return right after it, the body draft,
\* the blocked-term set and the rule map are what they were just before
\* the commit took effect.
C28_UndoInvertsCommit ==
    trip.phase = 3 => Overrides(Cur) = trip.before

-----------------------------------------------------------------------------
(* The annotations of the open document                                    *)

\* The rows the store returns for a target: those of its thread or of its
\* episode, ordered by start, end and created_at.
RECURSIVE listRows(_)
listRows(rows) ==
    IF rows = {} THEN <<>>
    ELSE LET row == CHOOSE r \in rows : \A other \in rows : other.id >= r.id
         IN  <<row>> \o listRows(rows \ {row})

rowsOfTarget(target) ==
    sortRows(listRows({row \in tagStore :
        IF target.episodeId # 0
        THEN row.episode_id = target.episodeId /\ row.thread_id = 0
        ELSE row.thread_id = target.threadId /\ row.episode_id = 0}))

\* Another document is opened: the effect on the selected document resets
\* the draft, the rows, the selection and both stacks, and the effect on
\* bodyTagTarget calls loadBodyTagAnnotations, which awaits the store.  The
\* annotations in memory stay until the reply.
openDocument ==
    \E id \in Buffers :
        /\ id # openBuffer
        /\ Len(tagCalls) < MaxTagCalls
        /\ openBuffer' = id
        /\ subItemBodyDraft' = BufferBody(id)
        /\ bodyTagSelection' = NoSelection
        /\ parsedLines' = <<>>
        /\ parserUndoStack' = <<>>
        /\ parserRedoStack' = <<>>
        /\ timerArmed' = (trim(BufferBody(id)) # <<>>)
        /\ tagCalls' = Append(tagCalls,
               [NoTagCall EXCEPT !.verb = "load",
                                 !.thread_id = targetOf(id).threadId,
                                 !.episode_id = targetOf(id).episodeId])
        /\ tagLast' = [tagLast EXCEPT !.op = "open", !.result = "awaiting",
                                      !.request = NoRequestYet]
        /\ UNCHANGED <<pvars, svars, hvars, filterTerms, lineRules, error,
                       bodyTagAnnotations, tagStore, nextTagRowId>>

\* The store answers a load: the rows of the target the load was called
\* for replace the annotations in memory.
loadReplyOk ==
    \E i \in 1..Len(tagCalls) :
        LET call == tagCalls[i]
        IN  /\ call.verb = "load"
            /\ tagCalls' = withoutCall(tagCalls, i)
            /\ bodyTagAnnotations' =
                   rowsOfTarget([threadId |-> call.thread_id,
                                 episodeId |-> call.episode_id])
            /\ tagLast' = [tagLast EXCEPT !.op = "load", !.result = "ok",
                                          !.request = NoRequestYet]
            /\ UNCHANGED <<error, bodyTagSelection, tagStore, nextTagRowId>>
            /\ TagFrame

\* The load fails: the message, and the annotations in memory stay.
loadReplyError ==
    \E i \in 1..Len(tagCalls) :
        LET call == tagCalls[i]
        IN  /\ call.verb = "load"
            /\ tagCalls' = withoutCall(tagCalls, i)
            /\ error' = ErrPersistence
            /\ tagLast' = [tagLast EXCEPT !.op = "load", !.result = "failed",
                                          !.request = NoRequestYet]
            /\ UNCHANGED <<bodyTagAnnotations, bodyTagSelection, tagStore,
                           nextTagRowId>>
            /\ TagFrame

\* Tagging with two documents to choose from.
NextScope ==
    \/ selectRange
    \/ pressTagButton
    \/ tagReplyOk
    \/ tagReplyError
    \/ openDocument
    \/ loadReplyOk
    \/ loadReplyError

SpecScope == InitTag /\ [][NextScope]_vars

\* C29 (scope of the annotation set): every annotation in memory has
\* exactly one of thread_id / episode_id set, and it is the id of the
\* target that is open.
C29_AnnotationsOfOpenTarget ==
    \A i \in 1..Len(bodyTagAnnotations) :
        LET row == bodyTagAnnotations[i]
        IN  /\ (row.thread_id # 0) # (row.episode_id # 0)
            /\ row.thread_id = bodyTagTarget.threadId
            /\ row.episode_id = bodyTagTarget.episodeId

-----------------------------------------------------------------------------
(* The predecessor of the classifier: no line rules, a heuristic for the   *)
(* lines that look like a speaker label.                                    *)

\* /[。、，．!?！？]/ : the full-width marks are written KUTEN, TOUTEN,
\* ZEN-COMMA, ZEN-PERIOD, ZEN-! and ZEN-?.
IsPunctuation(c) ==
    c \in {"KUTEN", "TOUTEN", "ZEN-COMMA", "ZEN-PERIOD", "!", "?", "ZEN-!", "ZEN-?"}

\* [0-9０-９\-〜～] : ZEN-1 is a full-width digit, NAMI and ZEN-NAMI the two
\* wave dashes.
IsNumberChar(c) ==
    c \in {"0", "1", "2", "3", "4", "5", "6", "7", "8", "9",
           "ZEN-0", "ZEN-1", "ZEN-2", "-", "NAMI", "ZEN-NAMI"}

ShortLimit == 20

\* nextLine is null when there is no next line (undefined in the source).
isLikelySpeakerLine_Mutant(line, nextLine, knownSpeakers) ==
    IF line = <<>> THEN FALSE
    ELSE IF nextLine = null \/ nextLine = <<>> THEN FALSE
    ELSE IF line \in knownSpeakers THEN TRUE
    ELSE IF Len(line) > ShortLimit THEN FALSE
    ELSE IF \E i \in 1..Len(line) : IsPunctuation(line[i]) THEN FALSE
    ELSE IF \E i \in 1..Len(line) : IsWhitespace(line[i]) THEN FALSE
    ELSE IF \A i \in 1..Len(line) : IsNumberChar(line[i]) THEN FALSE
    ELSE TRUE

isLikelySpeakerLine(line, nextLine, knownSpeakers) ==
    IF line = <<>> THEN FALSE
    ELSE IF line \in knownSpeakers THEN TRUE
    ELSE IF nextLine = null \/ nextLine = <<>> THEN FALSE
    ELSE IF Len(line) > ShortLimit THEN FALSE
    ELSE IF \E i \in 1..Len(line) : IsPunctuation(line[i]) THEN FALSE
    ELSE IF \E i \in 1..Len(line) : IsWhitespace(line[i]) THEN FALSE
    ELSE IF \A i \in 1..Len(line) : IsNumberChar(line[i]) THEN FALSE
    ELSE TRUE

\* lines[index], undefined (null) past the end.
lineAt(lines, index) == IF index <= Len(lines) THEN lines[index] ELSE null

\* The predecessor's row has no source line and no source rule.
HeuristicRow(kind, speaker, content) ==
    [kind |-> kind, speaker |-> speaker, content |-> content]

\* The loop of the predecessor's parseScriptLines from position index.
RECURSIVE walkHeuristic(_, _, _)
walkHeuristic(lines, index, knownSpeakers) ==
    IF index > Len(lines) THEN <<>>
    ELSE LET line == lines[index]
             nextLine == lineAt(lines, index + 1)
             nextNextLine == lineAt(lines, index + 2)
             lineIsSpeaker == isLikelySpeakerLine(line, nextLine, knownSpeakers)
             nextIsSpeaker ==
                 IF nextLine # null /\ nextLine # <<>>
                 THEN isLikelySpeakerLine(nextLine, nextNextLine, knownSpeakers)
                 ELSE FALSE
         IN  IF lineIsSpeaker /\ nextLine # null /\ nextLine # <<>> /\ ~nextIsSpeaker
             THEN <<HeuristicRow("dialogue", line, nextLine)>>
                      \o walkHeuristic(lines, index + 2, knownSpeakers)
             ELSE <<HeuristicRow("direction", <<>>, line)>>
                      \o walkHeuristic(lines, index + 1, knownSpeakers)

\* parseScriptLines of the predecessor (src/src/App.tsx).
parseScriptLinesHeuristic(rawText, blockedTerms, speakerNames) ==
    LET blockedSet == trimmedSet(blockedTerms)
        knownSpeakers == trimmedSet(speakerNames)
        lines == splitAndFilterLines(rawText, blockedSet)
    IN  walkHeuristic(lines, 1, knownSpeakers)

\* Lines for the heuristic: a known name, an unknown short name, a line
\* with "!", a number range, a line with a space inside, a line of 21
\* characters and a blocked line.
HeuristicFragments ==
    { Alice,
      Bob,
      Hello \o <<"!">>,
      <<"1", "-", "2">>,
      <<"YA", SP, "A">>,
      [i \in 1..(ShortLimit + 1) |-> "RI"],
      Yaa }

MaxHeuristicLines == 4

HeuristicTexts ==
    {join(fs, <<LF>>) :
        fs \in UNION {[1..n -> HeuristicFragments] : n \in 0..MaxHeuristicLines}}

InitHeuristic ==
    /\ EditorAtRest
    /\ pRaw \in HeuristicTexts
    /\ pBlocked \in BlockedTermLists
    /\ pRules = <<>>
    /\ pSpeakers \in SpeakerNameLists
    /\ pRows = <<>>
    /\ pBody = <<>>
    /\ pRows2 = <<>>
    /\ pStage = "input"

ClassifyHeuristic ==
    /\ pStage = "input"
    /\ pRows' = parseScriptLinesHeuristic(pRaw, pBlocked, pSpeakers)
    /\ pStage' = "heuristic"
    /\ UNCHANGED <<pRaw, pBlocked, pRules, pSpeakers, pBody, pRows2>>
    /\ UNCHANGED <<evars, svars, hvars, tvars, dvars>>

SpecHeuristic == InitHeuristic /\ [][ClassifyHeuristic]_vars

\* The position in the filtered lines at which row i starts.
RECURSIVE LinesBefore(_, _)
LinesBefore(rows, i) ==
    IF i <= 1 THEN 0
    ELSE LinesBefore(rows, i - 1) + (IF rows[i - 1].kind = "dialogue" THEN 2 ELSE 1)

\* A likely speaker label, position k of lines: a known speaker, or a line
\* that is followed by a line and is short (at most 20 characters), has no
\* punctuation mark, no white space and is not a number (digits, hyphen,
\* wave dash only).
LikelyLabel(lines, k, known) ==
    \/ lines[k] \in known
    \/ /\ k < Len(lines)
       /\ Len(lines[k]) <= ShortLimit
       /\ \A j \in 1..Len(lines[k]) :
              ~IsPunctuation(lines[k][j]) /\ ~IsWhitespace(lines[k][j])
       /\ \E j \in 1..Len(lines[k]) : ~IsNumberChar(lines[k][j])

\* C30 (predecessor classifier): the rows cover the filtered lines in
\* order; the row that starts at a line is Dialogue(line, next line)
\* exactly when the line is a likely speaker label, a next line exists and
\* the next line is not a likely speaker label, and Direction(line)
\* otherwise; no dialogue row has a known speaker name as its content.
C30_HeuristicPairs ==
    pStage = "heuristic" =>
        LET lines == splitAndFilterLines(pRaw, trimmedSet(pBlocked))
            known == trimmedSet(pSpeakers)
        IN  /\ LinesBefore(pRows, Len(pRows) + 1) = Len(lines)
            /\ \A i \in 1..Len(pRows) :
                   LET k == LinesBefore(pRows, i) + 1
                   IN  IF /\ LikelyLabel(lines, k, known)
                          /\ k < Len(lines)
                          /\ ~LikelyLabel(lines, k + 1, known)
                       THEN pRows[i] = [kind |-> "dialogue", speaker |-> lines[k],
                                        content |-> lines[k + 1]]
                       ELSE pRows[i] = [kind |-> "direction", speaker |-> <<>>,
                                        content |-> lines[k]]
            /\ \A i \in 1..Len(pRows) :
                   pRows[i].kind = "dialogue" => pRows[i].content \notin known

\* Classified: a line that is no known speaker leads a dialogue row, and a
\* line that is no known speaker stays a direction because a known speaker
\* closes the text right after it.
C30_Witness ==
    /\ pStage = "heuristic"
    /\ \E i \in 1..Len(pRows) :
          pRows[i].kind = "dialogue" /\ pRows[i].speaker \notin trimmedSet(pSpeakers)
    /\ Len(pRows) >= 2
    /\ pRows[Len(pRows)].kind = "direction"
    /\ pRows[Len(pRows)].content \in trimmedSet(pSpeakers)
    /\ pRows[Len(pRows) - 1].kind = "direction"
    /\ pRows[Len(pRows) - 1].content = Bob
    /\ Bob \notin trimmedSet(pSpeakers)


====
